---- MODULE Spec2Model ----
(***************************************************************************)
(* OBS-TV-Animator (app.py): the display state kept in data/state.json,    *)
(* the handlers that change or read it (HTTP routes, Socket.IO events, the *)
(* raw WebSocket server, the two file watchers), the Socket.IO device      *)
(* registry and the OBS WebSocket client with its reconnect timers.        *)
(*                                                                         *)
(* Every handler is one action.  Each action records what it was asked     *)
(* (lastOp), what it emitted to all clients (broadcasts), what it sent to  *)
(* the requester alone (unicasts) and what it returned (response), so that *)
(* the properties below can speak about the handler that ran last.         *)
(***************************************************************************)
EXTENDS Integers, Sequences, FiniteSets, TLC

\* ------------------------------------------------------------------------
\* Bounds of the model
\* ------------------------------------------------------------------------
\* Number of Socket.IO sessions that can be live at once.
MaxSessions == 2
\* Number of writes of the watched files (trigger.txt and
\* obs_current_scene.json together) that are followed; a write's mtime is
\* its number.
MaxWrites == 1
\* Number of reconnect timer threads, and of cooldown threads, of the OBS
\* client that can be pending at once.
MaxTimers == 2
\* Number of writes of the watched files that are followed where the two
\* watcher threads run next to their writers.
MaxTriggerWrites == 2

\* OBSWebSocketClient.max_reconnect_attempts            (app.py 433)
max_reconnect_attempts == 20

\* ------------------------------------------------------------------------
\* Values
\* ------------------------------------------------------------------------
\* Python's None (a missing request field, current_animation after /stop).
None == "<None>"

\* Files that can lie in animations/ and in videos/.
AnimationPool == {"anim1.html", "anim2.html"}
VideoPool == {"clip.mp4"}
\* Identifiers a request can name: the pool, and one that never exists.
Identifiers == AnimationPool \cup VideoPool \cup {"anim3.html"}
\* The 'animation' field of a request: an identifier, or absent.
RequestNames == Identifiers \cup {None}

\* app.py:59-60
HTML_EXTENSIONS == {".html", ".htm"}
VIDEO_EXTENSIONS == {".mp4", ".webm", ".ogg", ".avi", ".mov", ".mkv"}

\* Path(filename).suffix for the file names of the model.
Suffix(filename) ==
    CASE filename \in {"anim1.html", "anim2.html", "anim3.html",
                       "intro.html"} -> ".html"
      [] filename = "clip.mp4" -> ".mp4"
      [] filename = "style.css" -> ".css"
      [] OTHER -> ""

\* str.lower() on the suffixes of the model (all are lower case already).
LowerSuffix(s) ==
    CASE s = ".HTML" -> ".html"
      [] s = ".MP4" -> ".mp4"
      [] OTHER -> s

\* A watched file that does not exist.
NoFile == [exists |-> FALSE]

\* An empty dict.
EmptyDict == [k \in {} |-> None]

\* Python truthiness of a request field.
Truthy(v) == v # None /\ v # ""

\* ------------------------------------------------------------------------
\* JSON documents of data/state.json
\* ------------------------------------------------------------------------
JNull == <<"null">>
JStr(s) == <<"string", s>>
JNum(n) == <<"number", n>>

\* The file is missing, unreadable as JSON, or holds the object
\* {"current_animation": <value>}.
MissingFile == [kind |-> "missing"]
CorruptFile == [kind |-> "corrupt"]
JsonFile(doc) == [kind |-> "json", doc |-> doc]

\* json.dump of the state dict.
json_dump(state) ==
    JsonFile([current_animation |->
                 IF state.current_animation = None THEN JNull
                 ELSE JStr(state.current_animation)])

\* A faulty json.load that reads null as the default identifier (as
\* `data.get(key) or default` would): the round trip must tell it apart.
json_load_or_default(file) ==
    [current_animation |->
        IF file.doc.current_animation = JNull THEN "anim1.html"
        ELSE file.doc.current_animation[2]]

\* json.load of a file that holds a JSON object.
json_load(file) ==
    [current_animation |->
        IF file.doc.current_animation = JNull THEN None
        ELSE file.doc.current_animation[2]]

StateFiles ==
    {MissingFile, CorruptFile}
        \cup {json_dump([current_animation |-> v]) : v \in Identifiers \cup {None}}


\* ------------------------------------------------------------------------
\* State
\* ------------------------------------------------------------------------
VARIABLES
    booted,             \* the process has run its startup code
    animationsDir,      \* file names in animations/
    videosDir,          \* file names in videos/
    stateFile,          \* content of data/state.json
    lastOp,             \* the handler that ran last and its inputs
    broadcasts,         \* events it emitted to every Socket.IO client
    unicasts,           \* events it sent to the requesting client alone
    response,           \* what it returned to its caller
    triggerFile,        \* data/trigger.txt: NoFile or its content and mtime
    clock,              \* the time of the last write of a watched file
    tfw_last_modified,  \* TriggerFileWatcher.last_modified
    sceneFile,          \* data/config/obs_current_scene.json
    osw_last_modified,  \* OBSSceneWatcher.last_modified
    osw_last_scene,     \* OBSSceneWatcher.last_scene
    sio_sessions,       \* the live Socket.IO sessions and what they sent
    connected_devices,  \* connected_devices, in insertion order
    admin_sessions,     \* admin_sessions
    obs_client,         \* the OBSWebSocketClient made at startup: its fields,
                        \* its monitor thread and its pending timer threads
    obs_global,         \* the global obs_client still refers to that object
    obs_settings_file,  \* data/config/obs_settings.json
    obs_reachable,      \* OBS Studio accepts WebSocket connections
    raw_clients,        \* RawWebSocketServer.clients: the open raw sockets
    workers,            \* the threads that handle a request, step by step
    last_changed,       \* the media named by the last animation_changed
    tfw_thread          \* where the TriggerFileWatcher thread is in its loop

displayVars == <<animationsDir, videosDir, stateFile>>
traceVars == <<lastOp, broadcasts, unicasts, response>>
triggerFileVars == <<triggerFile, tfw_last_modified>>
sceneFileVars == <<sceneFile, osw_last_modified, osw_last_scene>>
watcherVars == <<clock, triggerFileVars, sceneFileVars>>
registryVars == <<sio_sessions, connected_devices, admin_sessions>>
obsVars == <<obs_client, obs_global, obs_settings_file, obs_reachable>>
threadVars == <<raw_clients, workers, last_changed, tfw_thread>>

\* What a handler records about itself.
Op(op, name) == [op |-> op, name |-> name]
NoResponse == [status |-> None]

\* ------------------------------------------------------------------------
\* load_state / save_state / ensure_state_file        (app.py 970-991)
\* ------------------------------------------------------------------------
default_state == [current_animation |-> "anim1.html"]

\* A faulty save_state that writes the default state whatever it is given.
save_state_stale(state) == json_dump(default_state)

\* The content of state.json after save_state(state).
save_state(state) == json_dump(state)

\* load_state(): the dict it returns and the file it leaves behind (a
\* missing or invalid file is replaced by the default state).
load_state(file) ==
    IF file.kind = "json"
    THEN [state |-> json_load(file), file |-> file]
    ELSE [state |-> default_state, file |-> save_state(default_state)]

\* ensure_state_file(): the file after it.
ensure_state_file(file) ==
    IF file.kind = "missing" THEN save_state(default_state) ELSE file

\* load_state().get('current_animation'): what a state read returns.
StateRead(file) == load_state(file).state.current_animation

\* ------------------------------------------------------------------------
\* Media catalog                                      (app.py 994-1040)
\* ------------------------------------------------------------------------
is_video_file(filename) == LowerSuffix(Suffix(filename)) \in VIDEO_EXTENSIONS

is_html_file(filename) == LowerSuffix(Suffix(filename)) \in HTML_EXTENSIONS

\* A faulty find_media_file that resolves every name in animations/.
find_media_file_any(filename) ==
    [media_path |-> <<"animations", filename>>, media_type |-> "animation"]

\* find_media_file: animations/ first, then videos/.
find_media_file(filename) ==
    IF filename \in animationsDir
    THEN [media_path |-> <<"animations", filename>>, media_type |-> "animation"]
    ELSE IF filename \in videosDir
    THEN [media_path |-> <<"videos", filename>>, media_type |-> "video"]
    ELSE [media_path |-> None, media_type |-> None]

\* The file names of the model in the order of Python's str comparison.
LexOrder ==
    <<"anim1.html", "anim2.html", "anim3.html", "clip.mp4", "intro.html">>

Rank(name) == CHOOSE i \in 1..Len(LexOrder) : LexOrder[i] = name

\* sorted(list)
RECURSIVE sorted(_)
sorted(list) ==
    IF list = <<>> THEN <<>>
    ELSE LET rest == sorted(Tail(list))
             x == Head(list)
             k == Cardinality({i \in 1..Len(rest) : Rank(rest[i]) < Rank(x)})
         IN SubSeq(rest, 1, k) \o <<x>> \o SubSeq(rest, k + 1, Len(rest))

\* The entries of a directory in the order glob yields them (any order).
RECURSIVE glob(_)
glob(names) ==
    IF names = {} THEN <<>>
    ELSE LET x == CHOOSE x \in names : TRUE IN <<x>> \o glob(names \ {x})

\* get_animation_files                                 (app.py 994-998)
get_animation_files ==
    sorted(glob({f \in animationsDir : Suffix(f) = ".html"}))

\* get_video_files                                     (app.py 1001-1008)
get_video_files ==
    sorted(glob({f \in videosDir : Suffix(f) \in VIDEO_EXTENSIONS}))

\* A faulty get_all_media_files that leaves out the sort of the whole list.
get_all_media_files_unsorted == get_animation_files \o get_video_files

\* get_all_media_files                                 (app.py 1011-1015)
get_all_media_files == sorted(get_animation_files \o get_video_files)

\* ------------------------------------------------------------------------
\* Events
\* ------------------------------------------------------------------------
\* animation_changed as the HTTP routes and the watchers emit it.
AnimationChanged(name, media_type) ==
    [event |-> "animation_changed", current_animation |-> name,
     media_type |-> media_type, refresh_page |-> TRUE]

\* A faulty animation_changed that reports a no-op when the requested media
\* is the current one already.
AnimationChangedFrom_noop(old, name, media_type) ==
    IF old = name
    THEN [event |-> "animation_unchanged", current_animation |-> name]
    ELSE [event |-> "animation_changed", previous_animation |-> old,
          current_animation |-> name, media_type |-> media_type,
          refresh_page |-> TRUE]

\* animation_changed as the Socket.IO handler emits it.
AnimationChangedFrom(old, name, media_type) ==
    [event |-> "animation_changed", previous_animation |-> old,
     current_animation |-> name, media_type |-> media_type,
     refresh_page |-> TRUE]

PageRefresh(reason, name, media_type) ==
    [event |-> "page_refresh", reason |-> reason, new_media |-> name,
     media_type |-> media_type]

\* ------------------------------------------------------------------------
\* OBSWebSocketClient                                 (app.py 423-967)
\* ------------------------------------------------------------------------
\* __init__: a new client object.  Besides the fields of the class the
\* record holds the state of its threads (monitor: "none" when no monitor
\* thread is alive, "running" inside the loop, "exiting" once the loop test
\* has failed and the thread has not ended yet; the numbers of
\* reconnect_after_delay and reset_attempts_later threads that sleep),
\* whether the session behind self.client is up, the number of sessions
\* that earlier connect() calls opened and nothing closed, the delay of
\* the attempt scheduled last since the last successful connect, and the
\* number of threads inside _schedule_reconnect that have tested
\* reconnect_attempts and not yet incremented it.
NewClient ==
    [client |-> FALSE,
     connected |-> FALSE,
     settings |-> FALSE,
     reconnect_attempts |-> 0,
     auto_reconnect_enabled |-> TRUE,
     should_be_connected |-> FALSE,
     monitor |-> "none",
     reconnect_timers |-> 0,
     cooldown_timers |-> 0,
     link_up |-> FALSE,
     stale_sessions |-> 0,
     last_delay |-> 0,
     scheduling |-> 0]

\* obs_settings.json is missing, unreadable, or holds settings with
\* 'enabled' true or false.
SettingsFiles == {"missing", "corrupt", "enabled", "disabled"}

\* load_settings() returns True for this obs_settings.json (app.py 438-464)
load_settings(file) == file \in {"enabled", "disabled"}

Min(a, b) == IF a < b THEN a ELSE b

\* _schedule_reconnect                                (app.py 631-654)
schedule_reconnect(self) ==
    IF self.reconnect_attempts < max_reconnect_attempts
    THEN [self EXCEPT !.reconnect_attempts = @ + 1,
                      !.last_delay = Min(30, 2 ^ (self.reconnect_attempts + 1)),
                      !.reconnect_timers = @ + 1]
    ELSE [self EXCEPT !.cooldown_timers = @ + 1]

\* _start_connection_monitor                          (app.py 656-702)
start_connection_monitor(self) ==
    IF self.monitor # "none"
    THEN self
    ELSE [self EXCEPT !.monitor = "running"]

\* A faulty connect that gives up the intent to be connected when OBS
\* Studio cannot be reached.
connect_giving_up(self, file) ==
    IF ~load_settings(file)
    THEN self
    ELSE IF obs_reachable
    THEN start_connection_monitor(
             [self EXCEPT !.settings = TRUE, !.client = TRUE, !.link_up = TRUE,
                          !.stale_sessions = IF self.link_up THEN @ + 1 ELSE @,
                          !.connected = TRUE, !.should_be_connected = TRUE,
                          !.reconnect_attempts = 0, !.last_delay = 0])
    ELSE [self EXCEPT !.settings = TRUE, !.client = TRUE, !.link_up = FALSE,
                      !.connected = FALSE, !.should_be_connected = FALSE]

\* connect, with obs_settings.json as it is at the call (app.py 479-542).
\* self.client is assigned a new obsws; the one it held is not
\* disconnected, and its session, when up, stays open with
\* _on_scene_changed registered.
connect(self, file) ==
    IF ~load_settings(file)
    THEN self
    ELSE IF obs_reachable
    THEN start_connection_monitor(
             [self EXCEPT !.settings = TRUE, !.client = TRUE, !.link_up = TRUE,
                          !.stale_sessions = IF self.link_up THEN @ + 1 ELSE @,
                          !.connected = TRUE, !.should_be_connected = TRUE,
                          !.reconnect_attempts = 0, !.last_delay = 0])
    ELSE schedule_reconnect(
             [self EXCEPT !.settings = TRUE, !.client = TRUE, !.link_up = FALSE,
                          !.connected = FALSE])

\* disconnect(permanent, force)                       (app.py 704-746)
\* The two flags are cleared inside `if permanent and not force`, after the
\* settings check; with force the call takes the else branch and only
\* closes the client.
disconnect(self, file, permanent, force) ==
    LET off == [self EXCEPT !.connected = FALSE]
        refused == /\ permanent
                   /\ ~force
                   /\ file \in {"enabled", "corrupt"}
        flags == IF permanent /\ ~force
                 THEN [off EXCEPT !.should_be_connected = FALSE,
                                  !.auto_reconnect_enabled = FALSE]
                 ELSE off
    IN IF refused THEN off
       ELSE IF flags.client
       THEN [flags EXCEPT !.client = FALSE, !.link_up = FALSE]
       ELSE flags

\* enable_persistent_connection                       (app.py 947-967)
enable_persistent_connection(self, file) ==
    LET on == [self EXCEPT !.auto_reconnect_enabled = TRUE,
                           !.should_be_connected = TRUE]
    IN IF on.connected
       THEN start_connection_monitor(on)
       ELSE IF ~on.settings /\ ~load_settings(file)
       THEN on
       ELSE start_connection_monitor(
                connect([on EXCEPT !.settings = TRUE], file))

\* The timer threads of the client are within the bound of the model.
WithinTimers(self) ==
    self.reconnect_timers <= MaxTimers /\ self.cooldown_timers <= MaxTimers

\* ------------------------------------------------------------------------
\* Request threads
\* ------------------------------------------------------------------------
\* The threads that run a handler at the same time as another one.
Workers == {"t1", "t2"}

\* Every thread is between two requests.  A thread holds the media it was
\* asked for, its state dict and, inside save_state, the state.json that
\* its open() has emptied.
IdleWorkers ==
    [w \in Workers |->
        [pc |-> "idle", animation |-> None, state |-> default_state,
         replaced |-> MissingFile]]

\* The TriggerFileWatcher thread is at the top of its loop (or asleep), has
\* read trigger.txt and still holds the text in animation_name, or has left
\* the loop; error_logged tells that its except branch has printed
\* "Error watching trigger file" since the process started.
PollingWatcher ==
    [pc |-> "poll", animation_name |-> None, error_logged |-> FALSE]

\* ------------------------------------------------------------------------
\* Process start and stop
\* ------------------------------------------------------------------------
Init ==
    /\ booted = FALSE
    /\ animationsDir \in SUBSET AnimationPool
    /\ videosDir \in SUBSET VideoPool
    /\ stateFile \in StateFiles
    /\ lastOp = [op |-> "none", name |-> None]
    /\ broadcasts = <<>>
    /\ unicasts = <<>>
    /\ response = NoResponse
    /\ triggerFile = NoFile
    /\ clock = 0
    /\ tfw_last_modified = 0
    /\ sceneFile = NoFile
    /\ osw_last_modified = 0
    /\ osw_last_scene = None
    /\ sio_sessions = EmptyDict
    /\ connected_devices = <<>>
    /\ admin_sessions = {}
    /\ obs_client = NewClient
    /\ obs_global = FALSE
    /\ obs_settings_file = "missing"
    /\ obs_reachable = FALSE
    /\ raw_clients = {}
    /\ workers = IdleWorkers
    /\ last_changed = None
    /\ tfw_thread = PollingWatcher

\* __main__ (app.py 3141-3303): ensure_state_file(), then the two
\* watchers are constructed (last_modified = 0, last_scene = None), then
\* the OBS client, which is told to connect when obs_settings.json loads.
Startup ==
    /\ ~booted
    /\ booted' = TRUE
    /\ stateFile' = ensure_state_file(stateFile)
    /\ lastOp' = Op("startup", None)
    /\ broadcasts' = <<>>
    /\ unicasts' = <<>>
    /\ response' = NoResponse
    /\ tfw_last_modified' = 0
    /\ osw_last_modified' = 0
    /\ osw_last_scene' = None
    /\ sio_sessions' = EmptyDict
    /\ connected_devices' = <<>>
    /\ admin_sessions' = {}
    /\ obs_client' =
         IF load_settings(obs_settings_file)
         THEN enable_persistent_connection(
                  [NewClient EXCEPT !.settings = TRUE,
                                    !.auto_reconnect_enabled = TRUE,
                                    !.should_be_connected = TRUE],
                  obs_settings_file)
         ELSE NewClient
    /\ obs_global' = TRUE
    /\ raw_clients' = {}
    /\ workers' = IdleWorkers
    /\ last_changed' = None
    /\ tfw_thread' = PollingWatcher
    /\ UNCHANGED <<animationsDir, videosDir, clock, triggerFile, sceneFile,
                   obs_settings_file, obs_reachable>>

\* The process ends: its threads and connections end with it, the files
\* stay.
Shutdown ==
    /\ booted
    /\ booted' = FALSE
    /\ lastOp' = Op("shutdown", None)
    /\ broadcasts' = <<>>
    /\ unicasts' = <<>>
    /\ response' = NoResponse
    /\ tfw_last_modified' = 0
    /\ osw_last_modified' = 0
    /\ osw_last_scene' = None
    /\ sio_sessions' = EmptyDict
    /\ connected_devices' = <<>>
    /\ admin_sessions' = {}
    /\ obs_client' = NewClient
    /\ obs_global' = FALSE
    /\ raw_clients' = {}
    /\ workers' = IdleWorkers
    /\ last_changed' = None
    /\ tfw_thread' = PollingWatcher
    /\ UNCHANGED <<displayVars, clock, triggerFile, sceneFile,
                   obs_settings_file, obs_reachable>>

\* ------------------------------------------------------------------------
\* HTTP routes
\* ------------------------------------------------------------------------
\* The shared body of POST /trigger and GET /trigger (app.py 1125-1167 and
\* 1176-1216): op names the route, reason the page_refresh reason.
HttpTrigger(op, reason, media_file) ==
    /\ booted
    /\ lastOp' = Op(op, media_file)
    /\ unicasts' = <<>>
    /\ UNCHANGED <<booted, animationsDir, videosDir, watcherVars>>
    /\ IF ~Truthy(media_file)
       THEN /\ response' = [status |-> 400]
            /\ broadcasts' = <<>>
            /\ UNCHANGED stateFile
       ELSE LET found == find_media_file(media_file) IN
            IF found.media_path = None
            THEN /\ response' = [status |-> 404]
                 /\ broadcasts' = <<>>
                 /\ UNCHANGED stateFile
            ELSE LET state == load_state(stateFile).state IN
                 /\ stateFile' =
                      save_state([state EXCEPT !.current_animation = media_file])
                 /\ broadcasts' =
                      <<AnimationChanged(media_file, found.media_type),
                        PageRefresh(reason, media_file, found.media_type)>>
                 /\ response' = [status |-> 200, success |-> TRUE,
                                 current_animation |-> media_file,
                                 media_type |-> found.media_type]
    /\ UNCHANGED <<registryVars, obsVars, threadVars>>

\* POST /trigger                                      (app.py 1117-1170)
trigger(media_file) == HttpTrigger("trigger", "media_changed", media_file)

\* GET /trigger?animation=...                         (app.py 1172-1219)
trigger_get(media_file) == HttpTrigger("trigger_get", "get_trigger", media_file)

\* A faulty POST /stop that clears the state only when state.json is
\* readable.
stop_animations_when_readable ==
    /\ booted
    /\ lastOp' = Op("stop", None)
    /\ stateFile' = IF stateFile.kind = "json"
                    THEN save_state([current_animation |-> None])
                    ELSE stateFile
    /\ broadcasts' = <<[event |-> "animation_stopped"]>>
    /\ unicasts' = <<>>
    /\ response' = [status |-> 200, success |-> TRUE]
    /\ UNCHANGED <<booted, animationsDir, videosDir, watcherVars>>
    /\ UNCHANGED <<registryVars, obsVars, threadVars>>

\* POST /stop                                         (app.py 1242-1265)
stop_animations ==
    /\ booted
    /\ lastOp' = Op("stop", None)
    /\ LET state == load_state(stateFile).state IN
       stateFile' = save_state([state EXCEPT !.current_animation = None])
    /\ broadcasts' = <<[event |-> "animation_stopped"]>>
    /\ unicasts' = <<>>
    /\ response' = [status |-> 200, success |-> TRUE]
    /\ UNCHANGED <<booted, animationsDir, videosDir, watcherVars>>
    /\ UNCHANGED <<registryVars, obsVars, threadVars>>


\* GET /                                              (app.py 1043-1068)
\* find_media_file(None) raises in `ANIMATIONS_DIR / filename`: the request
\* ends with status 500.
index ==
    /\ booted
    /\ lastOp' = Op("index", None)
    /\ LET loaded == load_state(stateFile)
           state == loaded.state
           current_media == state.current_animation
           all_media == get_all_media_files
       IN IF current_media = None
          THEN /\ stateFile' = loaded.file
               /\ response' = [status |-> 500]
          ELSE IF find_media_file(current_media).media_path # None
          THEN /\ stateFile' = loaded.file
               /\ response' = [status |-> 200, served |-> current_media]
          ELSE IF all_media # <<>>
          THEN /\ stateFile' =
                    save_state([state EXCEPT !.current_animation = all_media[1]])
               /\ response' = [status |-> 200, served |-> all_media[1]]
          ELSE /\ stateFile' = loaded.file
               /\ response' = [status |-> 404]
    /\ broadcasts' = <<>>
    /\ unicasts' = <<>>
    /\ UNCHANGED <<booted, animationsDir, videosDir, watcherVars>>
    /\ UNCHANGED <<registryVars, obsVars, threadVars>>

\* GET /animations                                     (app.py 1221-1239)
list_animations ==
    /\ booted
    /\ lastOp' = Op("list_animations", None)
    /\ LET loaded == load_state(stateFile) IN
       /\ stateFile' = loaded.file
       /\ response' = [status |-> 200,
                       animations |-> get_animation_files,
                       videos |-> get_video_files,
                       all_media |-> get_all_media_files,
                       current_animation |-> loaded.state.current_animation,
                       count |-> Len(get_all_media_files)]
    /\ broadcasts' = <<>>
    /\ unicasts' = <<>>
    /\ UNCHANGED <<booted, animationsDir, videosDir, watcherVars>>
    /\ UNCHANGED <<registryVars, obsVars, threadVars>>

\* GET /api/files                                      (app.py 2152-2189)
list_files ==
    /\ booted
    /\ lastOp' = Op("list_files", None)
    /\ LET loaded == load_state(stateFile)
           animations == get_animation_files
           videos == get_video_files
       IN /\ stateFile' = loaded.file
          /\ response' =
               [status |-> 200,
                files |-> [i \in 1..Len(animations) |->
                              [name |-> animations[i], type |-> "animation"]]
                          \o [i \in 1..Len(videos) |->
                                 [name |-> videos[i], type |-> "video"]],
                current_animation |-> loaded.state.current_animation]
    /\ broadcasts' = <<>>
    /\ unicasts' = <<>>
    /\ UNCHANGED <<booted, animationsDir, videosDir, watcherVars>>
    /\ UNCHANGED <<registryVars, obsVars, threadVars>>

\* GET /admin/api/status behind @api_admin_required (app.py 126-133,
\* 2079-2115).
admin_status(authenticated) ==
    /\ booted
    /\ lastOp' = [op |-> "admin_status", name |-> None,
                  authenticated |-> authenticated]
    /\ IF ~authenticated
       THEN /\ response' = [status |-> 401]
            /\ UNCHANGED stateFile
       ELSE LET loaded == load_state(stateFile)
                current_media == loaded.state.current_animation
                media_type == IF Truthy(current_media)
                              THEN find_media_file(current_media).media_type
                              ELSE None
            IN /\ stateFile' = loaded.file
               /\ response' = [status |-> 200, current_media |-> current_media,
                               media_type |-> media_type,
                               available_media |-> get_all_media_files]
    /\ broadcasts' = <<>>
    /\ unicasts' = <<>>
    /\ UNCHANGED <<booted, animationsDir, videosDir, watcherVars>>
    /\ UNCHANGED <<registryVars, obsVars, threadVars>>

\* ------------------------------------------------------------------------
\* Socket.IO events that change or read the display state
\* ------------------------------------------------------------------------
\* Scene names a scene_change event can carry, and str.lower() on them.
SceneNames == {"gaming", "Gaming", "BRB", "intro"}

Lower(s) ==
    CASE s = "Gaming" -> "gaming"
      [] s = "BRB" -> "brb"
      [] OTHER -> s

\* The inline animation_mapping dicts a scene_change event can carry (the
\* empty dict stands for an absent field as well: both are falsy).
InlineMappings ==
    {EmptyDict, "gaming" :> "anim2.html", "Gaming" :> "clip.mp4"}

\* default_mapping                                    (app.py 1421-1428)
default_mapping ==
    ("gaming" :> "anim1.html") @@ ("chatting" :> "anim2.html")
        @@ ("brb" :> "anim3.html") @@ ("be right back" :> "anim3.html")
        @@ ("starting soon" :> "anim1.html") @@ ("ending soon" :> "anim2.html")

\* dict.get(key) with None for a missing key.
DictGet(dict, key) == IF key \in DOMAIN dict THEN dict[key] ELSE None

\* A faulty handler that sends its error messages to every client.
TriggerAnimationResult_error_to_all(animation) ==
    IF ~Truthy(animation)
    THEN [file |-> stateFile,
          broadcasts |-> <<[event |-> "error",
                            message |-> "Missing animation field"]>>,
          unicasts |-> <<>>]
    ELSE LET found == find_media_file(animation) IN
         IF found.media_path = None
         THEN [file |-> stateFile,
               broadcasts |-> <<[event |-> "error", message |-> "not found",
                                 name |-> animation]>>,
               unicasts |-> <<>>]
         ELSE LET state == load_state(stateFile).state
                  old_animation == state.current_animation
              IN [file |-> save_state([state EXCEPT
                                          !.current_animation = animation]),
                  broadcasts |->
                      <<AnimationChangedFrom(old_animation, animation,
                                             found.media_type),
                        PageRefresh("media_changed", animation,
                                    found.media_type)>>,
                  unicasts |-> <<>>]

\* What handle_trigger_animation does for data = {'animation': animation}
\* (app.py 1345-1380): the state.json it leaves, what it broadcasts and
\* what it sends to the requester.
TriggerAnimationResult(animation) ==
    IF ~Truthy(animation)
    THEN [file |-> stateFile, broadcasts |-> <<>>,
          unicasts |-> <<[event |-> "error",
                          message |-> "Missing animation field"]>>]
    ELSE LET found == find_media_file(animation) IN
         IF found.media_path = None
         THEN [file |-> stateFile, broadcasts |-> <<>>,
               unicasts |-> <<[event |-> "error", message |-> "not found",
                               name |-> animation]>>]
         ELSE LET state == load_state(stateFile).state
                  old_animation == state.current_animation
              IN [file |-> save_state([state EXCEPT
                                          !.current_animation = animation]),
                  broadcasts |->
                      <<AnimationChangedFrom(old_animation, animation,
                                             found.media_type),
                        PageRefresh("media_changed", animation,
                                    found.media_type)>>,
                  unicasts |-> <<>>]

TriggerAnimationBody(animation) ==
    LET result == TriggerAnimationResult(animation) IN
    /\ stateFile' = result.file
    /\ broadcasts' = result.broadcasts
    /\ unicasts' = result.unicasts

\* @socketio.on('trigger_animation')                  (app.py 1341-1386)
handle_trigger_animation(animation) ==
    /\ booted
    /\ lastOp' = Op("sio_trigger_animation", animation)
    /\ TriggerAnimationBody(animation)
    /\ response' = NoResponse
    /\ UNCHANGED <<booted, animationsDir, videosDir, watcherVars>>
    /\ UNCHANGED <<registryVars, obsVars, threadVars>>

\* The animation handle_scene_change resolves       (app.py 1413-1429).
SceneChangeAnimation(raw_scene_name, animation_mapping) ==
    LET scene_name == Lower(raw_scene_name) IN
    IF animation_mapping # EmptyDict /\ scene_name \in DOMAIN animation_mapping
    THEN animation_mapping[scene_name]
    ELSE DictGet(default_mapping, scene_name)

\* @socketio.on('scene_change')                       (app.py 1409-1441)
handle_scene_change(raw_scene_name, animation_mapping) ==
    /\ booted
    /\ lastOp' = [op |-> "sio_scene_change", name |-> raw_scene_name,
                  mapping |-> animation_mapping]
    /\ LET animation == SceneChangeAnimation(raw_scene_name, animation_mapping) IN
       IF Truthy(animation)
       THEN TriggerAnimationBody(animation)
       ELSE /\ unicasts' = <<[event |-> "info", message |-> "No animation mapping",
                              scene |-> raw_scene_name]>>
            /\ broadcasts' = <<>>
            /\ UNCHANGED stateFile
    /\ response' = NoResponse
    /\ UNCHANGED <<booted, animationsDir, videosDir, watcherVars>>
    /\ UNCHANGED <<registryVars, obsVars, threadVars>>

\* @socketio.on('get_status')                         (app.py 1389-1406)
handle_get_status ==
    /\ booted
    /\ lastOp' = Op("sio_get_status", None)
    /\ LET loaded == load_state(stateFile)
           current_media == loaded.state.current_animation
           media_type == IF Truthy(current_media)
                         THEN find_media_file(current_media).media_type
                         ELSE None
       IN /\ stateFile' = loaded.file
          /\ unicasts' = <<[event |-> "status", current_animation |-> current_media,
                            media_type |-> media_type]>>
    /\ broadcasts' = <<>>
    /\ response' = NoResponse
    /\ UNCHANGED <<booted, animationsDir, videosDir, watcherVars>>
    /\ UNCHANGED <<registryVars, obsVars, threadVars>>

\* The 'action' and 'value' fields of a video_control event.
VideoActions == {"play", "seek", None}
VideoValues == {JNull, JNum(30)}

\* @socketio.on('video_control')                      (app.py 1471-1500)
handle_video_control(action, value) ==
    /\ booted
    /\ lastOp' = Op("sio_video_control", action)
    /\ IF ~Truthy(action)
       THEN /\ unicasts' = <<[event |-> "error",
                              message |-> "Missing action for video control"]>>
            /\ broadcasts' = <<>>
            /\ UNCHANGED stateFile
       ELSE LET loaded == load_state(stateFile)
                current_media == loaded.state.current_animation
            IN /\ stateFile' = loaded.file
               /\ IF Truthy(current_media) /\ ~is_video_file(current_media)
                  THEN /\ unicasts' = <<[event |-> "error",
                             message |-> "Current media is not a video file"]>>
                       /\ broadcasts' = <<>>
                  ELSE /\ broadcasts' = <<[event |-> "video_control",
                                           action |-> action, value |-> value]>>
                       /\ unicasts' = <<>>
    /\ response' = NoResponse
    /\ UNCHANGED <<booted, animationsDir, videosDir, watcherVars>>
    /\ UNCHANGED <<registryVars, obsVars, threadVars>>

\* @socketio.on('video_seek')                         (app.py 1503-1520)
handle_video_seek(time) ==
    /\ booted
    /\ lastOp' = Op("sio_video_seek", None)
    /\ broadcasts' = <<[event |-> "video_control", action |-> "seek",
                        value |-> JNum(time)]>>
    /\ unicasts' = <<>>
    /\ response' = NoResponse
    /\ UNCHANGED <<booted, displayVars, watcherVars>>
    /\ UNCHANGED <<registryVars, obsVars, threadVars>>

\* @socketio.on('video_volume'): the volume is clamped to 0..1; the model
\* follows the two ends of the range.               (app.py 1523-1541)
handle_video_volume(volume) ==
    /\ booted
    /\ lastOp' = Op("sio_video_volume", None)
    /\ broadcasts' = <<[event |-> "video_control", action |-> "volume",
                        value |-> JNum(IF volume < 0 THEN 0
                                       ELSE IF volume > 1 THEN 1 ELSE volume)]>>
    /\ unicasts' = <<>>
    /\ response' = NoResponse
    /\ UNCHANGED <<booted, displayVars, watcherVars>>
    /\ UNCHANGED <<registryVars, obsVars, threadVars>>


\* ------------------------------------------------------------------------
\* Raw WebSocket server (StreamerBot)                 (app.py 1545-1668)
\* ------------------------------------------------------------------------
\* One inbound message: text that is not JSON, JSON that is no object (a
\* list, a number, null), or a JSON object with an 'action' and, for
\* trigger_animation, the optional fields.
RawMessages ==
    {[kind |-> "malformed"], [kind |-> "not_object"]}
        \cup {[kind |-> "json", action |-> "get_status"],
              [kind |-> "json", action |-> "bogus"]}
        \cup [kind : {"json"}, action : {"trigger_animation"},
              animation : RequestNames, instant : BOOLEAN,
              force_refresh : BOOLEAN]

\* A faulty server that answers every message with an error and closes
\* the connections.
handle_client_closing(message) ==
    /\ booted
    /\ lastOp' = [op |-> "raw_message", name |-> None, message |-> message]
    /\ response' = [status |-> "error", message |-> "Invalid JSON format"]
    /\ raw_clients' = {}
    /\ broadcasts' = <<>>
    /\ unicasts' = <<>>
    /\ UNCHANGED <<booted, displayVars, watcherVars, registryVars, obsVars,
                   workers, last_changed, tfw_thread>>

\* RawWebSocketServer.handle_client, one iteration of `async for message`:
\* every branch sends one reply, the two except clauses are inside the
\* loop, and the connection stays in self.clients.
handle_client(message) ==
    /\ booted
    /\ lastOp' = [op |-> "raw_message",
                  name |-> IF message.kind = "json"
                              /\ message.action = "trigger_animation"
                           THEN message.animation ELSE None,
                  message |-> message]
    /\ unicasts' = <<>>
    /\ UNCHANGED <<booted, animationsDir, videosDir, watcherVars>>
    /\ IF message.kind = "malformed"
       THEN /\ response' = [status |-> "error", message |-> "Invalid JSON format"]
            /\ broadcasts' = <<>>
            /\ UNCHANGED stateFile
       ELSE IF message.kind = "not_object"
       THEN /\ response' = [status |-> "error", message |-> "Server error"]
            /\ broadcasts' = <<>>
            /\ UNCHANGED stateFile
       ELSE IF message.action = "trigger_animation"
       THEN LET animation == message.animation IN
            IF ~Truthy(animation)
            THEN /\ response' = [status |-> "error",
                                 message |-> "Missing animation parameter"]
                 /\ broadcasts' = <<>>
                 /\ UNCHANGED stateFile
            ELSE IF find_media_file(animation).media_path = None
            THEN /\ response' = [status |-> "error",
                                 message |-> "Animation file not found"]
                 /\ broadcasts' = <<>>
                 /\ UNCHANGED stateFile
            ELSE LET state == load_state(stateFile).state
                     old_animation == state.current_animation
                     media_type == IF is_video_file(animation)
                                   THEN "video" ELSE "animation"
                     changed == [event |-> "animation_changed",
                                 previous_animation |-> old_animation,
                                 current_animation |-> animation,
                                 media_type |-> media_type,
                                 refresh_page |-> message.force_refresh,
                                 instant |-> message.instant]
                     refresh == [event |-> "page_refresh",
                                 animation |-> animation,
                                 instant |-> message.instant]
                 IN /\ stateFile' =
                         save_state([state EXCEPT !.current_animation = animation])
                    /\ broadcasts' = IF message.force_refresh
                                     THEN <<changed, refresh>> ELSE <<changed>>
                    /\ response' = [status |-> "success", animation |-> animation,
                                    media_type |-> media_type]
       ELSE IF message.action = "get_status"
       THEN LET loaded == load_state(stateFile) IN
            /\ stateFile' = loaded.file
            /\ response' = [status |-> "success",
                            current_animation |-> loaded.state.current_animation]
            /\ broadcasts' = <<>>
       ELSE /\ response' = [status |-> "error", message |-> "Unknown action type"]
            /\ broadcasts' = <<>>
            /\ UNCHANGED stateFile
    /\ UNCHANGED <<registryVars, obsVars, threadVars>>

\* The raw sockets that can be open.
RawSockets == {"ws1", "ws2"}

\* A client opens a raw socket: handle_client adds it   (app.py 1551-1554)
raw_connect(websocket) ==
    /\ booted
    /\ websocket \notin raw_clients
    /\ raw_clients' = raw_clients \cup {websocket}
    /\ lastOp' = Op("raw_connect", None)
    /\ broadcasts' = <<>>
    /\ unicasts' = <<>>
    /\ response' = NoResponse
    /\ UNCHANGED <<booted, displayVars, watcherVars, registryVars, obsVars,
                   workers, last_changed, tfw_thread>>

\* The client closes the socket: ConnectionClosed ends the loop and the
\* finally clause discards it                          (app.py 1654-1659)
raw_close(websocket) ==
    /\ booted
    /\ websocket \in raw_clients
    /\ raw_clients' = raw_clients \ {websocket}
    /\ lastOp' = Op("raw_close", None)
    /\ broadcasts' = <<>>
    /\ unicasts' = <<>>
    /\ response' = NoResponse
    /\ UNCHANGED <<booted, displayVars, watcherVars, registryVars, obsVars,
                   workers, last_changed, tfw_thread>>

\* A message arrives on an open raw socket.
raw_receive(websocket, message) ==
    /\ websocket \in raw_clients
    /\ handle_client(message)

\* ------------------------------------------------------------------------
\* TriggerFileWatcher                                 (app.py 185-260)
\* ------------------------------------------------------------------------
\* What can be written to data/trigger.txt, and str.strip() on the texts of
\* the model.
TriggerContents == Identifiers \cup {"", " anim2.html\n"}

Strip(text) ==
    CASE text = " anim2.html\n" -> "anim2.html"
      [] text = " BRB " -> "BRB"
      [] text = "  " -> ""
      [] OTHER -> text

\* StreamerBot writes data/trigger.txt; no more than `limit` writes are
\* followed.
WriteTriggerFileUpTo(content, limit) ==
    /\ clock < limit
    /\ clock' = clock + 1
    /\ triggerFile' = [exists |-> TRUE, content |-> content,
                      mtime |-> clock + 1]
    /\ lastOp' = Op("write_trigger_file", content)
    /\ broadcasts' = <<>>
    /\ unicasts' = <<>>
    /\ response' = NoResponse
    /\ UNCHANGED <<booted, displayVars, tfw_last_modified, sceneFileVars>>
    /\ UNCHANGED <<registryVars, obsVars, threadVars>>

WriteTriggerFile(content) == WriteTriggerFileUpTo(content, MaxWrites)

\* Faulty watchers that emit animation_changed and no page_refresh.
WatcherTrigger_no_refresh(reason, animation_name) ==
    LET found == find_media_file(animation_name) IN
    IF found.media_path = None
    THEN /\ broadcasts' = <<>>
         /\ UNCHANGED stateFile
    ELSE LET state == load_state(stateFile).state IN
         /\ stateFile' =
              save_state([state EXCEPT !.current_animation = animation_name])
         /\ broadcasts' = <<AnimationChanged(animation_name, found.media_type)>>

\* TriggerFileWatcher._handle_trigger (app.py 224-256) and
\* OBSSceneWatcher._trigger_animation (app.py 370-412): the same steps with
\* another page_refresh reason.
WatcherTrigger(reason, animation_name) ==
    LET found == find_media_file(animation_name) IN
    IF found.media_path = None
    THEN /\ broadcasts' = <<>>
         /\ UNCHANGED stateFile
    ELSE LET state == load_state(stateFile).state IN
         /\ stateFile' =
              save_state([state EXCEPT !.current_animation = animation_name])
         /\ broadcasts' =
              <<AnimationChanged(animation_name, found.media_type),
                PageRefresh(reason, animation_name, found.media_type)>>

\* A faulty watcher that leaves trigger.txt in place after it has handled
\* it.
watch_file_keeping ==
    /\ booted
    /\ triggerFile.exists
    /\ triggerFile.mtime > tfw_last_modified
    /\ tfw_last_modified' = triggerFile.mtime
    /\ LET animation_name == Strip(triggerFile.content) IN
       /\ lastOp' = Op("file_trigger", animation_name)
       /\ IF animation_name # ""
          THEN WatcherTrigger("file_trigger", animation_name)
          ELSE /\ broadcasts' = <<>>
               /\ UNCHANGED stateFile
    /\ unicasts' = <<>>
    /\ response' = NoResponse
    /\ UNCHANGED <<booted, animationsDir, videosDir, clock, sceneFileVars,
                   triggerFile>>
    /\ UNCHANGED <<registryVars, obsVars, threadVars>>

\* One iteration of TriggerFileWatcher._watch_file that finds a newer file
\* (an iteration that finds none changes nothing).
watch_file ==
    /\ booted
    /\ triggerFile.exists
    /\ triggerFile.mtime > tfw_last_modified
    /\ tfw_last_modified' = triggerFile.mtime
    /\ LET animation_name == Strip(triggerFile.content) IN
       /\ lastOp' = Op("file_trigger", animation_name)
       /\ IF animation_name # ""
          THEN WatcherTrigger("file_trigger", animation_name)
          ELSE /\ broadcasts' = <<>>
               /\ UNCHANGED stateFile
    /\ triggerFile' = NoFile
    /\ unicasts' = <<>>
    /\ response' = NoResponse
    /\ UNCHANGED <<booted, animationsDir, videosDir, clock, sceneFileVars>>
    /\ UNCHANGED <<registryVars, obsVars, threadVars>>

\* ------------------------------------------------------------------------
\* OBSSceneWatcher                                    (app.py 263-420)
\* ------------------------------------------------------------------------
\* Scene names OBS can report.
ObsScenes == {"Gaming", "BRB", "Intro"}

\* data/config/obs_mappings.json.
SceneMappings ==
    <<[sceneName |-> "Gaming", animation |-> "anim2.html"],
      [sceneName |-> "Gaming", animation |-> "clip.mp4"],
      [sceneName |-> "BRB", animation |-> "anim3.html"]>>

\* A faulty lookup in which the last matching mapping wins.
MappedAnimation_last(mappings, scene_name) ==
    LET hits == {i \in 1..Len(mappings) : mappings[i].sceneName = scene_name} IN
    IF hits = {} THEN None
    ELSE mappings[CHOOSE i \in hits : \A j \in hits : i >= j].animation

\* The first mapping whose sceneName is scene_name (app.py 335-339).
MappedAnimation(mappings, scene_name) ==
    LET hits == {i \in 1..Len(mappings) : mappings[i].sceneName = scene_name} IN
    IF hits = {} THEN None
    ELSE mappings[CHOOSE i \in hits : \A j \in hits : i <= j].animation

\* obs_current_scene.json holds the object {current_scene, last_updated}
\* and, when an earlier release or a tool wrote it, other fields such as
\* scene_list: an existing file is [exists, current_scene, mtime, others],
\* or [exists, mtime] alone while it is empty or cut short.
\* POST /api/obs/current-scene (app.py 3089-3134) behind @admin_required
\* (app.py 116-123): an unauthenticated request is redirected to the login
\* page and writes nothing.  The route keeps current_scene and last_updated
\* of the record it loads and no other field; a record it cannot parse ends
\* the request with status 500.
api_obs_current_scene_post_up_to(authenticated, scene, limit) ==
    /\ booted
    /\ lastOp' = [op |-> "api_obs_current_scene_post", name |-> scene,
                  authenticated |-> authenticated]
    /\ broadcasts' = <<>>
    /\ unicasts' = <<>>
    /\ IF ~authenticated
       THEN /\ response' = [status |-> 302]
            /\ UNCHANGED <<sceneFile, clock>>
       ELSE IF sceneFile.exists /\ "current_scene" \notin DOMAIN sceneFile
       THEN /\ response' = [status |-> 500]
            /\ UNCHANGED <<sceneFile, clock>>
       ELSE /\ clock < limit
            /\ clock' = clock + 1
            /\ sceneFile' = [exists |-> TRUE, current_scene |-> scene,
                            mtime |-> clock + 1, others |-> {}]
            /\ response' = [status |-> 200, success |-> TRUE]
    /\ UNCHANGED <<booted, displayVars, triggerFileVars, osw_last_modified,
                   osw_last_scene>>
    /\ UNCHANGED <<registryVars, obsVars, threadVars>>

\* The route within the writes that are followed everywhere.
api_obs_current_scene_post(authenticated, scene) ==
    api_obs_current_scene_post_up_to(authenticated, scene, MaxWrites)

\* The same route, by a logged-in admin, statement by statement in request
\* thread w: the record is loaded and open(current_scene_path, 'w') leaves
\* an empty file                                     (app.py 3094-3129)
current_scene_post_open(w, scene) ==
    /\ booted
    /\ workers[w].pc = "idle"
    /\ lastOp' = [op |-> "current_scene_post_open", name |-> scene,
                  worker |-> w]
    /\ broadcasts' = <<>>
    /\ unicasts' = <<>>
    /\ IF sceneFile.exists /\ "current_scene" \notin DOMAIN sceneFile
       THEN /\ response' = [status |-> 500]
            /\ UNCHANGED <<sceneFile, clock, workers>>
       ELSE /\ clock < MaxWrites
            /\ clock' = clock + 1
            /\ sceneFile' = [exists |-> TRUE, mtime |-> clock + 1]
            /\ workers' = [workers EXCEPT ![w].pc = "scene_opened",
                                          ![w].animation = scene]
            /\ response' = NoResponse
    /\ UNCHANGED <<booted, displayVars, triggerFileVars, osw_last_modified,
                   osw_last_scene, registryVars, obsVars, raw_clients,
                   last_changed, tfw_thread>>

\* json.dump(scene_data, f), the file is closed and the route answers
\* (app.py 3130-3132)
current_scene_post_dump(w) ==
    /\ booted
    /\ workers[w].pc = "scene_opened"
    /\ lastOp' = [op |-> "current_scene_post_dump",
                  name |-> workers[w].animation, worker |-> w]
    /\ broadcasts' = <<>>
    /\ unicasts' = <<>>
    /\ clock' = clock + 1
    /\ sceneFile' = [exists |-> TRUE, current_scene |-> workers[w].animation,
                    mtime |-> clock + 1, others |-> {}]
    /\ workers' = [workers EXCEPT ![w].pc = "idle", ![w].animation = None]
    /\ response' = [status |-> 200, success |-> TRUE]
    /\ UNCHANGED <<booted, displayVars, triggerFileVars, osw_last_modified,
                   osw_last_scene, registryVars, obsVars, raw_clients,
                   last_changed, tfw_thread>>

\* One iteration of OBSSceneWatcher._watch_scene_file that finds a newer
\* file, with _handle_scene_change and _trigger_animation.  lastOp.name is
\* the animation handed to _trigger_animation, None when there is none.
\* A file json.load cannot parse is logged and passed over, with
\* last_modified set already (app.py 299-314).
watch_scene_file ==
    /\ booted
    /\ sceneFile.exists
    /\ sceneFile.mtime > osw_last_modified
    /\ osw_last_modified' = sceneFile.mtime
    /\ LET current_scene == IF "current_scene" \in DOMAIN sceneFile
                            THEN sceneFile.current_scene
                            ELSE None
           animation_name == MappedAnimation(SceneMappings, current_scene)
       IN IF Truthy(current_scene) /\ current_scene # osw_last_scene
          THEN /\ osw_last_scene' = current_scene
               /\ IF Truthy(animation_name)
                  THEN /\ lastOp' = [op |-> "scene_watcher",
                                     name |-> animation_name,
                                     scene |-> current_scene]
                       /\ WatcherTrigger("media_changed", animation_name)
                  ELSE /\ lastOp' = [op |-> "scene_watcher", name |-> None,
                                     scene |-> current_scene]
                       /\ broadcasts' = <<>>
                       /\ UNCHANGED stateFile
          ELSE /\ lastOp' = [op |-> "scene_watcher", name |-> None,
                             scene |-> current_scene]
               /\ broadcasts' = <<>>
               /\ UNCHANGED <<stateFile, osw_last_scene>>
    /\ unicasts' = <<>>
    /\ response' = NoResponse
    /\ UNCHANGED <<booted, animationsDir, videosDir, clock, triggerFileVars,
                   sceneFile>>
    /\ UNCHANGED <<registryVars, obsVars, threadVars>>

\* ------------------------------------------------------------------------
\* Socket.IO device registry                 (app.py 63-64, 136-177, 1281-1338)
\* ------------------------------------------------------------------------
\* request.sid of the sessions that can be live at once.
SessionIds == 1..MaxSessions

\* The Referer header of a connecting client, and '/admin' in referrer.
Referrers == {"", "http://tv:8080/", "http://tv:8080/admin/manage"}

HasAdminPath(referrer) == referrer = "http://tv:8080/admin/manage"

\* A dict without the key session_id, and with session_id set to a value
\* (a new key goes last, an old key keeps its place).
DictPop(devices, session_id) ==
    SelectSeq(devices, LAMBDA d : d.id # session_id)

DictHas(devices, session_id) ==
    \E k \in 1..Len(devices) : devices[k].id = session_id

DictSet(devices, session_id, device_type) ==
    IF DictHas(devices, session_id)
    THEN [k \in 1..Len(devices) |->
             IF devices[k].id = session_id
             THEN [id |-> session_id, type |-> device_type]
             ELSE devices[k]]
    ELSE Append(devices, [id |-> session_id, type |-> device_type])

\* A faulty get_connected_devices_info that counts every device as a TV.
get_connected_devices_info_all_tv(devices) ==
    [tv_devices |-> [k \in 1..Len(devices) |->
                        [id |-> devices[k].id, type |-> "tv"]],
     tv_count |-> Len(devices),
     admin_count |-> 0,
     streamerbot_count |-> 0,
     total_count |-> Len(devices)]

\* get_connected_devices_info() for the Socket.IO devices (no raw
\* WebSocket client is connected).
get_connected_devices_info(devices) ==
    LET tv_devices == SelectSeq(devices, LAMBDA d : d.type = "tv")
        admins == SelectSeq(devices, LAMBDA d : d.type = "admin")
    IN [tv_devices |-> tv_devices,
        tv_count |-> Len(tv_devices),
        admin_count |-> Len(admins),
        streamerbot_count |-> 0,
        total_count |-> Len(devices) + 0]

DevicesUpdated(devices) ==
    [event |-> "devices_updated", info |-> get_connected_devices_info(devices)]

\* @socketio.on('connect')                            (app.py 1281-1311)
handle_connect(session_id, referrer) ==
    /\ booted
    /\ session_id \notin DOMAIN sio_sessions
    /\ sio_sessions' = sio_sessions
                          @@ (session_id :> [referrer |-> referrer,
                                             registered |-> FALSE])
    /\ lastOp' = [op |-> "sio_connect", name |-> None, sid |-> session_id]
    /\ LET device_type == IF HasAdminPath(referrer) THEN "admin" ELSE "tv"
           loaded == load_state(stateFile)
       IN /\ connected_devices' =
                DictSet(connected_devices, session_id, device_type)
          /\ admin_sessions' = IF device_type = "admin"
                               THEN admin_sessions \cup {session_id}
                               ELSE admin_sessions
          /\ broadcasts' = <<DevicesUpdated(connected_devices')>>
          /\ stateFile' = loaded.file
          /\ unicasts' = <<[event |-> "status",
                            current_animation |-> loaded.state.current_animation,
                            available_animations |-> animationsDir]>>
    /\ response' = NoResponse
    /\ UNCHANGED <<booted, animationsDir, videosDir, watcherVars, obsVars, threadVars>>

\* @socketio.on('disconnect')                         (app.py 1314-1325)
handle_disconnect(session_id) ==
    /\ booted
    /\ session_id \in DOMAIN sio_sessions
    /\ sio_sessions' = [x \in DOMAIN sio_sessions \ {session_id} |->
                           sio_sessions[x]]
    /\ lastOp' = [op |-> "sio_disconnect", name |-> None, sid |-> session_id]
    /\ connected_devices' = DictPop(connected_devices, session_id)
    /\ admin_sessions' = admin_sessions \ {session_id}
    /\ broadcasts' = <<DevicesUpdated(connected_devices')>>
    /\ unicasts' = <<>>
    /\ response' = NoResponse
    /\ UNCHANGED <<booted, displayVars, watcherVars, obsVars, threadVars>>

\* @socketio.on('register_admin')                     (app.py 1328-1338)
handle_register_admin(session_id) ==
    /\ booted
    /\ session_id \in DOMAIN sio_sessions
    /\ sio_sessions' = [sio_sessions EXCEPT ![session_id].registered = TRUE]
    /\ lastOp' = [op |-> "sio_register_admin", name |-> None,
                  sid |-> session_id]
    /\ IF DictHas(connected_devices, session_id)
       THEN /\ connected_devices' =
                  DictSet(connected_devices, session_id, "admin")
            /\ admin_sessions' = admin_sessions \cup {session_id}
            /\ broadcasts' = <<DevicesUpdated(connected_devices')>>
       ELSE /\ broadcasts' = <<>>
            /\ UNCHANGED <<connected_devices, admin_sessions>>
    /\ unicasts' = <<>>
    /\ response' = NoResponse
    /\ UNCHANGED <<booted, displayVars, watcherVars, obsVars, threadVars>>

\* ------------------------------------------------------------------------
\* The OBS client at work: its threads, OBS Studio, the admin API
\* ------------------------------------------------------------------------
\* What every step of this part leaves alone, and the trace it leaves.
ObsStep(op) ==
    /\ lastOp' = Op(op, None)
    /\ broadcasts' = <<>>
    /\ unicasts' = <<>>
    /\ UNCHANGED <<booted, displayVars, watcherVars, registryVars,
                   threadVars>>

\* OBS Studio stops: it accepts no connection and every session to it ends.
\* The client's `connected` flag is not told.
ObsGoesDown ==
    /\ obs_reachable
    /\ obs_reachable' = FALSE
    /\ obs_client' = [obs_client EXCEPT !.link_up = FALSE,
                                        !.stale_sessions = 0]
    /\ ObsStep("obs_down")
    /\ response' = NoResponse
    /\ UNCHANGED <<obs_global, obs_settings_file>>

\* OBS Studio starts.
ObsComesUp ==
    /\ ~obs_reachable
    /\ obs_reachable' = TRUE
    /\ ObsStep("obs_up")
    /\ response' = NoResponse
    /\ UNCHANGED <<obs_client, obs_global, obs_settings_file>>

\* A reconnect_after_delay thread wakes up             (app.py 638-642)
reconnect_after_delay ==
    /\ booted
    /\ obs_client.reconnect_timers > 0
    /\ LET self == [obs_client EXCEPT !.reconnect_timers = @ - 1] IN
       obs_client' = IF ~self.connected
                     THEN connect(self, obs_settings_file)
                     ELSE self
    /\ WithinTimers(obs_client')
    /\ ObsStep("reconnect_after_delay")
    /\ response' = NoResponse
    /\ UNCHANGED <<obs_global, obs_settings_file, obs_reachable>>

\* A reset_attempts_later thread wakes up              (app.py 647-653)
reset_attempts_later ==
    /\ booted
    /\ obs_client.cooldown_timers > 0
    /\ LET self == [obs_client EXCEPT !.cooldown_timers = @ - 1,
                                      !.reconnect_attempts = 0]
       IN obs_client' = IF self.should_be_connected /\ ~self.connected
                        THEN schedule_reconnect(self)
                        ELSE self
    /\ WithinTimers(obs_client')
    /\ ObsStep("reset_attempts_later")
    /\ response' = NoResponse
    /\ UNCHANGED <<obs_global, obs_settings_file, obs_reachable>>

\* A faulty monitor thread that tests its loop flag and never reconnects.
connection_monitor_idle ==
    /\ booted
    /\ obs_client.monitor = "running"
    /\ obs_client' = IF ~obs_client.auto_reconnect_enabled
                     THEN [obs_client EXCEPT !.monitor = "exiting"]
                     ELSE obs_client
    /\ ObsStep("connection_monitor")
    /\ response' = NoResponse
    /\ UNCHANGED <<obs_global, obs_settings_file, obs_reachable>>

\* The monitor thread tests `while self.auto_reconnect_enabled`, and when
\* the flag is set sleeps and runs the body of the loop (app.py 663-694).
connection_monitor ==
    /\ booted
    /\ obs_client.monitor = "running"
    /\ LET self == obs_client IN
       obs_client' =
         IF ~self.auto_reconnect_enabled
         THEN [self EXCEPT !.monitor = "exiting"]
         ELSE IF self.should_be_connected /\ ~self.connected
         THEN connect(self, obs_settings_file)
         ELSE IF self.connected /\ self.client /\ ~self.link_up
         THEN LET broken == [self EXCEPT !.connected = FALSE] IN
              IF broken.should_be_connected
              THEN connect(broken, obs_settings_file)
              ELSE broken
         ELSE self
    /\ WithinTimers(obs_client')
    /\ ObsStep("connection_monitor")
    /\ response' = NoResponse
    /\ UNCHANGED <<obs_global, obs_settings_file, obs_reachable>>

\* The monitor thread, out of its loop, ends.
connection_monitor_exit ==
    /\ booted
    /\ obs_client.monitor = "exiting"
    /\ obs_client' = [obs_client EXCEPT !.monitor = "none"]
    /\ ObsStep("connection_monitor_exit")
    /\ response' = NoResponse
    /\ UNCHANGED <<obs_global, obs_settings_file, obs_reachable>>

\* POST /api/obs/connect (app.py 2891-2915).  When the global is None the
\* route makes another client object; the one followed here is untouched.
api_obs_connect ==
    /\ booted
    /\ obs_client' = IF obs_global
                     THEN enable_persistent_connection(obs_client,
                                                       obs_settings_file)
                     ELSE obs_client
    /\ WithinTimers(obs_client')
    /\ ObsStep("api_obs_connect")
    /\ response' = [status |-> 200]
    /\ UNCHANGED <<obs_global, obs_settings_file, obs_reachable>>

\* POST /api/obs/disconnect                           (app.py 2918-2931)
api_obs_disconnect ==
    /\ booted
    /\ obs_client' = IF obs_global
                     THEN disconnect(obs_client, obs_settings_file, TRUE, FALSE)
                     ELSE obs_client
    /\ obs_global' = FALSE
    /\ ObsStep("api_obs_disconnect")
    /\ response' = [status |-> 200, success |-> TRUE]
    /\ UNCHANGED <<obs_settings_file, obs_reachable>>

\* POST /api/obs/settings (app.py 2706-2779): enabled is the 'enabled'
\* field, changed says that host, port or password differ from the ones the
\* client has loaded.  After a restart the global is another client object.
api_obs_settings_post(enabled, changed) ==
    /\ booted
    /\ obs_settings_file' = IF enabled THEN "enabled" ELSE "disabled"
    /\ LET needs_restart == ~(obs_global /\ obs_client.settings) \/ changed IN
       IF needs_restart
       THEN /\ obs_client' = IF obs_global
                             THEN disconnect(obs_client, obs_settings_file',
                                             TRUE, TRUE)
                             ELSE obs_client
            /\ obs_global' = FALSE
       ELSE /\ obs_client' = IF enabled
                             THEN enable_persistent_connection(
                                      obs_client, obs_settings_file')
                             ELSE disconnect(obs_client, obs_settings_file',
                                             TRUE, TRUE)
            /\ UNCHANGED obs_global
    /\ WithinTimers(obs_client')
    /\ ObsStep("api_obs_settings_post")
    /\ response' = [status |-> 200, success |-> TRUE]
    /\ UNCHANGED obs_reachable

\* GET /api/obs/status by a logged-in admin (app.py 2934-3046); scene is the
\* program scene of OBS Studio at that moment.  get_current_scene and
\* get_scene_list catch what the call raises and return None and [] (app.py
\* 820-872), so a probe that fails answers connected with no scene and
\* leaves the client as it is.  A scene it gets is written by
\* _save_current_scene_to_storage (app.py 874-943), which keeps
\* current_scene and last_updated of the record it finds and no other
\* field, and puts the new file in place with one rename.  When the global
\* is None the route makes another client object; the one followed here is
\* untouched.
api_obs_status(scene) ==
    /\ booted
    /\ lastOp' = [op |-> "api_obs_status", name |-> None, scene |-> scene]
    /\ broadcasts' = <<>>
    /\ unicasts' = <<>>
    /\ LET obs_enabled == obs_settings_file # "disabled"
           self == IF obs_enabled /\ obs_global
                      /\ ~obs_client.should_be_connected
                   THEN enable_persistent_connection(obs_client,
                                                     obs_settings_file)
                   ELSE obs_client
           probed == obs_enabled /\ obs_global /\ self.connected
           current_scene == IF probed /\ self.client /\ self.link_up
                            THEN scene
                            ELSE None
       IN /\ obs_client' = self
          /\ WithinTimers(self)
          /\ IF current_scene # None
             THEN /\ clock < MaxWrites
                  /\ clock' = clock + 1
                  /\ sceneFile' = [exists |-> TRUE, current_scene |-> scene,
                                  mtime |-> clock + 1, others |-> {}]
             ELSE UNCHANGED <<clock, sceneFile>>
          /\ response' = [status |-> 200, connected |-> probed,
                          current_scene |-> current_scene,
                          disabled |-> ~obs_enabled]
    /\ UNCHANGED <<booted, displayVars, triggerFileVars, osw_last_modified,
                   osw_last_scene, registryVars, threadVars, obs_global,
                   obs_settings_file, obs_reachable>>

\* The sessions to OBS Studio the process holds for this client.
Sessions(self) == (IF self.link_up THEN 1 ELSE 0) + self.stale_sessions

\* The events OBS Studio can send for a scene change, as obs-websocket-py
\* hands them over: the name in the attribute sceneName, behind
\* getSceneName(), in datain['sceneName'], in none of them, or an object
\* whose inspection raises.
SceneMessages ==
    {[shape |-> shape, sceneName |-> name] :
        shape \in {"sceneName", "getSceneName", "datain"},
        name \in ObsScenes \cup {"", "  ", " BRB "}}
        \cup {[shape |-> "other"], [shape |-> "raises"]}

\* The scene name _on_scene_changed takes from the event (app.py 549-582):
\* None when it finds no name, or one that is empty once stripped.
ExtractedScene(message) ==
    IF message.shape \notin {"sceneName", "getSceneName", "datain"}
    THEN None
    ELSE IF Strip(message.sceneName) = "" THEN None
    ELSE Strip(message.sceneName)

\* A faulty callback that also shows the media mapped to the scene.
on_scene_changed_triggering(message) ==
    /\ booted
    /\ Sessions(obs_client) > 0
    /\ lastOp' = [op |-> "on_scene_changed", name |-> None,
                  scene |-> ExtractedScene(message), message |-> message]
    /\ WatcherTrigger("media_changed",
                      MappedAnimation(SceneMappings, ExtractedScene(message)))
    /\ unicasts' = <<>>
    /\ response' = NoResponse
    /\ UNCHANGED <<booted, animationsDir, videosDir, watcherVars, registryVars,
                   obsVars, threadVars>>

\* A faulty callback that emits scene_changed for whatever name the event
\* holds, without the test for an empty name.
on_scene_changed_unchecked(message) ==
    /\ booted
    /\ Sessions(obs_client) > 0
    /\ lastOp' = [op |-> "on_scene_changed", name |-> None,
                  scene |-> ExtractedScene(message), message |-> message]
    /\ broadcasts' =
         IF message.shape \notin {"sceneName", "getSceneName", "datain"}
         THEN <<>>
         ELSE [i \in 1..Sessions(obs_client) |->
                  [event |-> "scene_changed",
                   scene_name |-> message.sceneName]]
    /\ unicasts' = <<>>
    /\ response' = NoResponse
    /\ UNCHANGED <<booted, displayVars, watcherVars, registryVars, obsVars,
                   threadVars>>

\* OBS Studio switches to a scene and tells every session, and each session
\* calls the _on_scene_changed registered with it (app.py 544-629).  An
\* event that yields no scene name is dropped.  For the others the callback
\* posts the scene to /api/obs/current-scene without a login, which
\* @admin_required redirects (app.py 116-123, 3089-3090), and emits
\* scene_changed.
on_scene_changed(message) ==
    /\ booted
    /\ Sessions(obs_client) > 0
    /\ lastOp' = [op |-> "on_scene_changed", name |-> None,
                  scene |-> ExtractedScene(message), message |-> message]
    /\ broadcasts' =
         IF ExtractedScene(message) = None
         THEN <<>>
         ELSE [i \in 1..Sessions(obs_client) |->
                  [event |-> "scene_changed",
                   scene_name |-> ExtractedScene(message)]]
    /\ unicasts' = <<>>
    /\ response' = NoResponse
    /\ UNCHANGED <<booted, displayVars, watcherVars, registryVars, obsVars,
                   threadVars>>

\* ------------------------------------------------------------------------
\* The display state and everything that triggers a change of it
\* ------------------------------------------------------------------------
vars ==
    <<booted, displayVars, traceVars, watcherVars, registryVars, obsVars,
      threadVars>>

Next ==
    \/ Startup
    \/ Shutdown
    \/ \E media_file \in RequestNames : trigger(media_file)
    \/ \E media_file \in RequestNames : trigger_get(media_file)
    \/ stop_animations
    \/ \E animation \in RequestNames : handle_trigger_animation(animation)
    \/ \E scene \in SceneNames, mapping \in InlineMappings :
           handle_scene_change(scene, mapping)
    \/ handle_get_status
    \/ \E action \in VideoActions, value \in VideoValues :
           handle_video_control(action, value)
    \/ \E time \in {30} : handle_video_seek(time)
    \/ \E volume \in {0, 2} : handle_video_volume(volume)
    \/ \E message \in RawMessages : handle_client(message)
    \/ \E content \in TriggerContents : WriteTriggerFile(content)
    \/ watch_file
    \/ \E authenticated \in BOOLEAN, scene \in ObsScenes :
           api_obs_current_scene_post(authenticated, scene)
    \/ watch_scene_file

Spec == Init /\ [][Next]_vars

\* ------------------------------------------------------------------------
\* The device registry on its own
\* ------------------------------------------------------------------------
NextRegistry ==
    \/ Startup
    \/ Shutdown
    \/ \E session_id \in SessionIds, referrer \in Referrers :
           handle_connect(session_id, referrer)
    \/ \E session_id \in SessionIds : handle_disconnect(session_id)
    \/ \E session_id \in SessionIds : handle_register_admin(session_id)

SpecRegistry == Init /\ [][NextRegistry]_vars

\* ------------------------------------------------------------------------
\* The OBS client on its own
\* ------------------------------------------------------------------------
\* The media and the state file are fixed; obs_settings.json and OBS Studio
\* are in any state when the process starts.
InitObs ==
    /\ booted = FALSE
    /\ animationsDir = AnimationPool
    /\ videosDir = VideoPool
    /\ stateFile = save_state(default_state)
    /\ lastOp = [op |-> "none", name |-> None]
    /\ broadcasts = <<>>
    /\ unicasts = <<>>
    /\ response = NoResponse
    /\ triggerFile = NoFile
    /\ clock = 0
    /\ tfw_last_modified = 0
    /\ sceneFile = NoFile
    /\ osw_last_modified = 0
    /\ osw_last_scene = None
    /\ sio_sessions = EmptyDict
    /\ connected_devices = <<>>
    /\ admin_sessions = {}
    /\ obs_client = NewClient
    /\ obs_global = FALSE
    /\ obs_settings_file \in SettingsFiles
    /\ obs_reachable \in BOOLEAN
    /\ raw_clients = {}
    /\ workers = IdleWorkers
    /\ last_changed = None
    /\ tfw_thread = PollingWatcher

NextObs ==
    \/ Startup
    \/ Shutdown
    \/ ObsGoesDown
    \/ ObsComesUp
    \/ reconnect_after_delay
    \/ reset_attempts_later
    \/ connection_monitor
    \/ connection_monitor_exit
    \/ api_obs_connect
    \/ api_obs_disconnect
    \/ \E enabled \in BOOLEAN, changed \in BOOLEAN :
           api_obs_settings_post(enabled, changed)
    \/ \E scene \in ObsScenes : api_obs_status(scene)

SpecObs == InitObs /\ [][NextObs]_vars

\* The threads of the client run: a timer thread that sleeps wakes up, the
\* monitor thread goes round its loop.
FairSpecObs ==
    /\ SpecObs
    /\ WF_vars(reconnect_after_delay)
    /\ WF_vars(reset_attempts_later)
    /\ WF_vars(connection_monitor)
    /\ WF_vars(connection_monitor_exit)

\* ------------------------------------------------------------------------
\* What the handler that ran last was asked and what it answered
\* ------------------------------------------------------------------------
\* The media catalog: the names in animations/ and videos/.
Catalog == animationsDir \cup videosDir

\* The six paths that ask for a change of the current media.
HttpPaths == {"trigger", "trigger_get"}
TriggerPaths ==
    HttpPaths \cup {"sio_trigger_animation", "raw_message", "file_trigger",
                    "scene_watcher"}

\* The last handler was asked to show lastOp.name.
ChangeRequest == lastOp.op \in TriggerPaths /\ Truthy(lastOp.name)

\* The last handler accepted the request: the HTTP routes answer 200, the
\* raw socket replies "success", the Socket.IO handler and the watchers
\* answer nothing and emit the change.
Accepted ==
    /\ broadcasts # <<>>
    /\ broadcasts[1].event = "animation_changed"
    /\ broadcasts[1].current_animation = lastOp.name
    /\ CASE lastOp.op \in HttpPaths ->
              response.status = 200 /\ response.current_animation = lastOp.name
         [] lastOp.op = "raw_message" -> response.status = "success"
         [] lastOp.op = "sio_trigger_animation" -> unicasts = <<>>
         [] OTHER -> TRUE

\* The last handler rejected the request: nothing is broadcast, the HTTP
\* routes answer 400 or 404, the raw socket replies "error", the Socket.IO
\* handler sends the requester an error, the watchers only log.
Rejected ==
    /\ broadcasts = <<>>
    /\ CASE lastOp.op \in HttpPaths -> response.status \in {400, 404}
         [] lastOp.op = "raw_message" -> response.status = "error"
         [] lastOp.op = "sio_trigger_animation" ->
              Len(unicasts) = 1 /\ unicasts[1].event = "error"
         [] OTHER -> TRUE

\* An event without the field that names the media shown before.
Core(e) == [f \in DOMAIN e \ {"previous_animation"} |-> e[f]]

\* Two broadcasts are the same events with the same fields, the previous
\* media apart.
SameBroadcast(a, b) ==
    /\ Len(a) = Len(b)
    /\ \A k \in 1..Len(a) : Core(a[k]) = Core(b[k])

\* ------------------------------------------------------------------------
\* The scene mirror: OBS scene changes, the scene record and its watcher
\* ------------------------------------------------------------------------
\* The client and OBS Studio as in InitObs; obs_current_scene.json is
\* missing or was left by an earlier run with no scene and a scene_list.
InitScene ==
    /\ booted = FALSE
    /\ animationsDir = AnimationPool
    /\ videosDir = VideoPool
    /\ stateFile = save_state(default_state)
    /\ lastOp = [op |-> "none", name |-> None]
    /\ broadcasts = <<>>
    /\ unicasts = <<>>
    /\ response = NoResponse
    /\ triggerFile = NoFile
    /\ clock = 0
    /\ tfw_last_modified = 0
    /\ sceneFile \in {NoFile,
                      [exists |-> TRUE, current_scene |-> None, mtime |-> 0,
                       others |-> {"scene_list"}]}
    /\ osw_last_modified = 0
    /\ osw_last_scene = None
    /\ sio_sessions = EmptyDict
    /\ connected_devices = <<>>
    /\ admin_sessions = {}
    /\ obs_client = NewClient
    /\ obs_global = FALSE
    /\ obs_settings_file \in SettingsFiles
    /\ obs_reachable \in BOOLEAN
    /\ raw_clients = {}
    /\ workers = IdleWorkers
    /\ last_changed = None
    /\ tfw_thread = PollingWatcher

NextScene ==
    \/ Startup
    \/ Shutdown
    \/ connection_monitor
    \/ api_obs_disconnect
    \/ \E scene \in ObsScenes : api_obs_status(scene)
    \/ \E message \in SceneMessages : on_scene_changed(message)
    \/ \E authenticated \in BOOLEAN, scene \in ObsScenes :
           api_obs_current_scene_post(authenticated, scene)
    \/ \E w \in Workers, scene \in ObsScenes : current_scene_post_open(w, scene)
    \/ \E w \in Workers : current_scene_post_dump(w)
    \/ watch_scene_file

SpecScene == InitScene /\ [][NextScene]_vars

\* ------------------------------------------------------------------------
\* The media catalog, the requests that read and the requests that resolve
\* ------------------------------------------------------------------------
\* Any media, with an animation that sorts after the video, and any
\* state.json.  The two directories are filled by hand as well as by the
\* upload route: animations/ can hold a file that is no media (a style
\* sheet of an animation) and a video.
InitCatalog ==
    /\ booted = FALSE
    /\ animationsDir \in SUBSET (AnimationPool
                                    \cup {"intro.html", "style.css", "clip.mp4"})
    /\ videosDir \in SUBSET VideoPool
    /\ stateFile \in StateFiles
    /\ lastOp = [op |-> "none", name |-> None]
    /\ broadcasts = <<>>
    /\ unicasts = <<>>
    /\ response = NoResponse
    /\ triggerFile = NoFile
    /\ clock = 0
    /\ tfw_last_modified = 0
    /\ sceneFile = NoFile
    /\ osw_last_modified = 0
    /\ osw_last_scene = None
    /\ sio_sessions = EmptyDict
    /\ connected_devices = <<>>
    /\ admin_sessions = {}
    /\ obs_client = NewClient
    /\ obs_global = FALSE
    /\ obs_settings_file = "missing"
    /\ obs_reachable = FALSE
    /\ raw_clients = {}
    /\ workers = IdleWorkers
    /\ last_changed = None
    /\ tfw_thread = PollingWatcher

NextCatalog ==
    \/ Startup
    \/ Shutdown
    \/ index
    \/ list_animations
    \/ list_files
    \/ \E authenticated \in BOOLEAN : admin_status(authenticated)
    \/ handle_get_status
    \/ \E session_id \in SessionIds, referrer \in Referrers :
           handle_connect(session_id, referrer)
    \/ \E session_id \in SessionIds : handle_disconnect(session_id)
    \/ handle_client([kind |-> "json", action |-> "get_status"])
    \/ \E media_file \in {"anim1.html", "clip.mp4", "style.css"} :
           \/ trigger(media_file)
           \/ handle_trigger_animation(media_file)
           \/ handle_client([kind |-> "json", action |-> "trigger_animation",
                             animation |-> media_file, instant |-> TRUE,
                             force_refresh |-> TRUE])

SpecCatalog == InitCatalog /\ [][NextCatalog]_vars

\* ------------------------------------------------------------------------
\* The raw WebSocket server and its connections
\* ------------------------------------------------------------------------
NextRaw ==
    \/ Startup
    \/ Shutdown
    \/ \E websocket \in RawSockets : raw_connect(websocket)
    \/ \E websocket \in RawSockets : raw_close(websocket)
    \/ \E websocket \in RawSockets, message \in RawMessages :
           raw_receive(websocket, message)

SpecRaw == Init /\ [][NextRaw]_vars

\* ------------------------------------------------------------------------
\* Requests handled at the same time
\* ------------------------------------------------------------------------
\* The handlers run in threads of their own (the Socket.IO server, the raw
\* socket server and the two watchers), and nothing serialises them.  Here
\* POST /trigger (app.py 1117-1170) is taken statement by statement for
\* each thread; the other trigger paths run the same statements.
\* What a step of thread w leaves alone, and the trace it leaves.
WorkerStep(w, op, pc) ==
    /\ booted
    /\ workers[w].pc = pc
    /\ lastOp' = [op |-> op, name |-> workers'[w].animation, worker |-> w]
    /\ unicasts' = <<>>
    /\ UNCHANGED <<booted, animationsDir, videosDir, watcherVars, registryVars,
                   obsVars, raw_clients, tfw_thread>>

\* find_media_file(media_file) finds the file; state = load_state();
\* state['current_animation'] = media_file              (app.py 1130-1142)
trigger_load(w, media_file) ==
    /\ find_media_file(media_file).media_path # None
    /\ LET loaded == load_state(stateFile) IN
       /\ stateFile' = loaded.file
       /\ workers' = [workers EXCEPT ![w] =
                         [pc |-> "loaded", animation |-> media_file,
                          state |-> [loaded.state EXCEPT
                                        !.current_animation = media_file],
                          replaced |-> MissingFile]]
    /\ WorkerStep(w, "trigger_load", "idle")
    /\ broadcasts' = <<>>
    /\ response' = NoResponse
    /\ UNCHANGED last_changed

\* save_state: open(STATE_FILE, 'w') leaves an empty file  (app.py 984)
trigger_open(w) ==
    /\ stateFile' = CorruptFile
    /\ workers' = [workers EXCEPT ![w].pc = "opened",
                                  ![w].replaced = stateFile]
    /\ WorkerStep(w, "trigger_open", "loaded")
    /\ broadcasts' = <<>>
    /\ response' = NoResponse
    /\ UNCHANGED last_changed

\* save_state: json.dump(state, f) and the file is closed  (app.py 985)
trigger_dump(w) ==
    /\ stateFile' = save_state(workers[w].state)
    /\ workers' = [workers EXCEPT ![w].pc = "saved"]
    /\ WorkerStep(w, "trigger_dump", "opened")
    /\ broadcasts' = <<>>
    /\ response' = NoResponse
    /\ UNCHANGED last_changed

\* socketio.emit('animation_changed'), socketio.emit('page_refresh') and the
\* reply                                            (app.py 1145-1165)
trigger_emit(w) ==
    LET media_file == workers[w].animation
        media_type == find_media_file(media_file).media_type
    IN /\ broadcasts' = <<AnimationChanged(media_file, media_type),
                          PageRefresh("media_changed", media_file, media_type)>>
       /\ last_changed' = media_file
       /\ workers' = [workers EXCEPT ![w].pc = "idle"]
       /\ WorkerStep(w, "trigger_emit", "saved")
       /\ response' = [status |-> 200, current_animation |-> media_file]
       /\ UNCHANGED stateFile

\* save_state raises: open(STATE_FILE, 'w') fails and leaves the file as it
\* was, or json.dump fails and leaves the file that open() has emptied; the
\* except branch of trigger answers 500    (app.py 982-985, 1169-1170)
trigger_raise(w) ==
    /\ workers[w].pc \in {"loaded", "opened"}
    /\ workers' = [workers EXCEPT ![w].pc = "idle"]
    /\ WorkerStep(w, "trigger_raise", workers[w].pc)
    /\ broadcasts' = <<>>
    /\ response' = [status |-> 500]
    /\ UNCHANGED <<stateFile, last_changed>>

\* DELETE /admin/api/delete/animation/<filename> by a logged-in admin,
\* statement by statement in request thread w.  First the path is made,
\* the file is looked for and the current media is read from state.json
\* (app.py 2271-2286); a request that is refused ends here.
admin_delete_check(w, filename) ==
    /\ booted
    /\ workers[w].pc = "idle"
    /\ lastOp' = [op |-> "admin_delete_check", name |-> filename, worker |-> w]
    /\ broadcasts' = <<>>
    /\ unicasts' = <<>>
    /\ IF filename \notin animationsDir
       THEN /\ response' = [status |-> 404]
            /\ UNCHANGED <<stateFile, workers>>
       ELSE LET loaded == load_state(stateFile) IN
            /\ stateFile' = loaded.file
            /\ IF loaded.state.current_animation = filename
               THEN /\ response' = [status |-> 400]
                    /\ UNCHANGED workers
               ELSE /\ response' = NoResponse
                    /\ workers' = [workers EXCEPT ![w].pc = "delete_checked",
                                                  ![w].animation = filename]
    /\ UNCHANGED <<booted, animationsDir, videosDir, watcherVars, registryVars,
                   obsVars, raw_clients, last_changed, tfw_thread>>

\* file_path.unlink() and the reply (app.py 2288-2304); unlink raises when
\* the file is gone by now, and the except branch answers 500.
admin_delete_unlink(w) ==
    /\ booted
    /\ workers[w].pc = "delete_checked"
    /\ lastOp' = [op |-> "admin_delete_unlink",
                  name |-> workers[w].animation, worker |-> w]
    /\ broadcasts' = <<>>
    /\ unicasts' = <<>>
    /\ animationsDir' = animationsDir \ {workers[w].animation}
    /\ response' = IF workers[w].animation \in animationsDir
                   THEN [status |-> 200, success |-> TRUE]
                   ELSE [status |-> 500]
    /\ workers' = [workers EXCEPT ![w].pc = "idle", ![w].animation = None]
    /\ UNCHANGED <<booted, videosDir, stateFile, watcherVars, registryVars,
                   obsVars, raw_clients, last_changed, tfw_thread>>

NextThreads ==
    \/ Startup
    \/ Shutdown
    \/ \E w \in Workers, media_file \in Identifiers : trigger_load(w, media_file)
    \/ \E w \in Workers : trigger_open(w)
    \/ \E w \in Workers : trigger_dump(w)
    \/ \E w \in Workers : trigger_raise(w)
    \/ \E w \in Workers : trigger_emit(w)
    \/ handle_get_status

SpecThreads == InitObs /\ [][NextThreads]_vars

\* POST /trigger and the admin's delete request in two request threads.
NextDelete ==
    \/ Startup
    \/ Shutdown
    \/ \E w \in Workers, media_file \in AnimationPool :
           trigger_load(w, media_file)
    \/ \E w \in Workers : trigger_open(w)
    \/ \E w \in Workers : trigger_dump(w)
    \/ \E w \in Workers : trigger_emit(w)
    \/ \E w \in Workers, filename \in AnimationPool :
           admin_delete_check(w, filename)
    \/ \E w \in Workers : admin_delete_unlink(w)

SpecDelete == InitObs /\ [][NextDelete]_vars

\* ------------------------------------------------------------------------
\* Properties of the display state
\* ------------------------------------------------------------------------
\* C1: a change request, on any of the six trigger paths, for an identifier
\* that is not in the media catalog is rejected and leaves state.json as it
\* was before the request.
C1_UnknownMediaRejected ==
    [][(ChangeRequest' /\ lastOp'.name \notin Catalog)
          => (Rejected' /\ stateFile' = stateFile)]_vars

C1_Witness ==
    /\ ChangeRequest
    /\ lastOp.name \notin Catalog
    /\ Rejected
    /\ stateFile.kind = "json"
    /\ StateRead(stateFile) \in Catalog

\* C2: a change request for an identifier of the media catalog is accepted,
\* a state read taken right after it returns that identifier, and
\* state.json holds it.
C2_KnownMediaAccepted ==
    (ChangeRequest /\ lastOp.name \in Catalog)
        => /\ Accepted
           /\ StateRead(stateFile) = lastOp.name
           /\ stateFile = JsonFile([current_animation |-> JStr(lastOp.name)])

C2_Witness ==
    /\ ChangeRequest
    /\ lastOp.name \in videosDir
    /\ Accepted
    /\ StateRead(stateFile) = lastOp.name

VideoControlOps == {"sio_video_control", "sio_video_seek", "sio_video_volume"}

CurrentIsVideo ==
    LET current_media == StateRead(stateFile) IN
    Truthy(current_media) /\ is_video_file(current_media)

C4_VideoControlOnlyForVideo ==
    /\ (\E k \in 1..Len(broadcasts) : broadcasts[k].event = "video_control")
          => CurrentIsVideo
    /\ (lastOp.op \in VideoControlOps /\ ~CurrentIsVideo)
          => /\ broadcasts = <<>>
             /\ Len(unicasts) = 1
             /\ unicasts[1].event = "error"

\* C5: what save_state writes, load_state reads back, None included; a
\* restart of the process keeps the current_animation of a readable
\* state.json; a start without state.json yields anim1.html.
C5_RoundTrip ==
    /\ \A v \in Identifiers \cup {None} :
         load_state(save_state([current_animation |-> v]))
             .state.current_animation = v
    /\ [][/\ (lastOp'.op \in {"shutdown", "startup"}
             /\ stateFile.kind = "json")
            => /\ stateFile'.kind = "json"
               /\ StateRead(stateFile')
                    = json_load(stateFile).current_animation
          /\ (lastOp'.op = "startup" /\ stateFile.kind = "missing")
            => StateRead(stateFile') = "anim1.html"]_vars

C5_Witness ==
    /\ lastOp.op = "startup"
    /\ StateRead(stateFile) = None

\* C6: a change request repeated for the identifier that the same request
\* has just made current is accepted again, leaves it current, and
\* broadcasts the same events with the same current_animation and
\* media_type as the first request.
C6_RepeatedRequest ==
    [][(/\ ChangeRequest
        /\ Accepted
        /\ StateRead(stateFile) = lastOp.name
        /\ lastOp' = lastOp)
          => /\ Accepted'
             /\ StateRead(stateFile') = lastOp.name
             /\ SameBroadcast(broadcasts, broadcasts')]_vars

C6_Witness ==
    /\ lastOp.op = "sio_trigger_animation"
    /\ Accepted
    /\ broadcasts[1].previous_animation = lastOp.name

\* C7: a scene_change whose scene name is, case apart, an entry of the
\* default table and that carries no inline mapping for the scene has the
\* effect and the broadcasts of trigger_animation for the table's
\* identifier; an inline mapping for the scene name goes before the table.
InlineKeys(raw_scene_name, animation_mapping) ==
    {k \in DOMAIN animation_mapping : Lower(k) = Lower(raw_scene_name)}

SceneAnimation(raw_scene_name, animation_mapping) ==
    IF InlineKeys(raw_scene_name, animation_mapping) # {}
    THEN animation_mapping[CHOOSE k \in
                              InlineKeys(raw_scene_name, animation_mapping) : TRUE]
    ELSE DictGet(default_mapping, Lower(raw_scene_name))

C7_SceneChangeAsTrigger ==
    [][lastOp'.op = "sio_scene_change"
          => LET animation == SceneAnimation(lastOp'.name, lastOp'.mapping) IN
             Truthy(animation)
                => /\ stateFile' = TriggerAnimationResult(animation).file
                   /\ broadcasts' = TriggerAnimationResult(animation).broadcasts]_vars

\* ------------------------------------------------------------------------
\* Properties of the device registry
\* ------------------------------------------------------------------------
\* The ids of a snapshot's tv_devices.
TvIds(info) == {info.tv_devices[k].id : k \in 1..Len(info.tv_devices)}

Snapshot == get_connected_devices_info(connected_devices)

\* The live sessions that have sent register_admin, and those that
\* connected from a page under /admin.
RegisteredSessions == {x \in DOMAIN sio_sessions : sio_sessions[x].registered}

AdminPageSessions ==
    {x \in DOMAIN sio_sessions : HasAdminPath(sio_sessions[x].referrer)}

\* C8 as stated: the snapshot's tv devices are the live sessions that have
\* not registered as admin, admin_count is the number of those that have,
\* and a register_admin moves one session from the one to the other.
C8_AsStated ==
    [][/\ TvIds(Snapshot') = DOMAIN sio_sessions' \ RegisteredSessions'
       /\ Snapshot'.admin_count = Cardinality(RegisteredSessions')
       /\ lastOp'.op = "sio_register_admin"
            => /\ Snapshot'.tv_count = Snapshot.tv_count - 1
               /\ Snapshot'.admin_count = Snapshot.admin_count + 1]_vars

\* C8, amended: the snapshot's tv devices are the live sessions that neither
\* connected from a page under /admin nor registered as admin, admin_count
\* is the number of the other live sessions; a session that connects from
\* any other page counts as a TV until it registers; a register_admin of a
\* TV session moves that one session, a register_admin of an admin session
\* moves none.
C8_RegistrySnapshot ==
    [][/\ TvIds(Snapshot') =
            DOMAIN sio_sessions' \ (RegisteredSessions' \cup AdminPageSessions')
       /\ Snapshot'.tv_count = Cardinality(TvIds(Snapshot'))
       /\ Snapshot'.admin_count =
            Cardinality(RegisteredSessions' \cup AdminPageSessions')
       /\ admin_sessions' = RegisteredSessions' \cup AdminPageSessions'
       /\ lastOp'.op = "sio_register_admin"
            => IF lastOp'.sid \in TvIds(Snapshot)
               THEN /\ TvIds(Snapshot') = TvIds(Snapshot) \ {lastOp'.sid}
                    /\ Snapshot'.admin_count = Snapshot.admin_count + 1
               ELSE Snapshot' = Snapshot]_vars

C8_Witness ==
    /\ lastOp.op = "sio_register_admin"
    /\ Snapshot.tv_count = 1
    /\ Snapshot.admin_count = 1
    /\ AdminPageSessions = {}

\* ------------------------------------------------------------------------
\* Properties of the OBS client
\* ------------------------------------------------------------------------
\* The step schedules a reconnection attempt: _schedule_reconnect has
\* counted one more attempt (after the reset, in a cooldown thread).
AttemptScheduled ==
    \/ obs_client'.reconnect_attempts = obs_client.reconnect_attempts + 1
    \/ /\ lastOp'.op = "reset_attempts_later"
       /\ obs_client'.reconnect_attempts = 1

\* C9: while should_be_connected is set and the client is not connected,
\* each scheduled attempt has a longer delay than the one before it until
\* the delay is 30 s, and never a longer one; with reconnect_attempts at
\* max_reconnect_attempts no attempt is scheduled before a cooldown thread
\* has woken up, and that thread resets the counter to 0 (and starts again
\* with the first delay).
C9_BackoffAsStated ==
    [][/\ (/\ AttemptScheduled
           /\ obs_client'.should_be_connected
           /\ ~obs_client'.connected)
            => /\ obs_client'.last_delay <= 30
               /\ \/ obs_client'.last_delay > obs_client.last_delay
                  \/ /\ obs_client'.last_delay = 30
                     /\ obs_client.last_delay = 30
                  \/ /\ lastOp'.op = "reset_attempts_later"
                     /\ obs_client.reconnect_attempts = max_reconnect_attempts
       /\ (/\ obs_client.reconnect_attempts = max_reconnect_attempts
           /\ lastOp'.op # "reset_attempts_later")
            => obs_client'.reconnect_timers <= obs_client.reconnect_timers
       /\ lastOp'.op = "reset_attempts_later"
            => obs_client'.reconnect_attempts \in {0, 1}]_vars

\* The conditions of C10: the process runs, should_be_connected is set, OBS
\* Studio is reachable and obs_settings.json loads.
ObsWanted ==
    /\ booted
    /\ obs_client.should_be_connected
    /\ obs_reachable
    /\ load_settings(obs_settings_file)

\* The client object exists: the global or one of its threads refers to it.
\* An object that nothing refers to is collected.
ObsExists ==
    \/ obs_global
    \/ obs_client.monitor # "none"
    \/ obs_client.reconnect_timers > 0
    \/ obs_client.cooldown_timers > 0

\* C10: whenever a client has should_be_connected set and is not connected,
\* it gets connected, also after max_reconnect_attempts failed attempts,
\* unless should_be_connected is cleared, OBS Studio is not reachable,
\* obs_settings.json is not readable or the process ends.
C10_NeverGivesUp ==
    (ObsWanted /\ ObsExists /\ ~obs_client.connected)
        ~> (obs_client.connected \/ ~ObsWanted)

\* A thread has connected the client while a cooldown thread sleeps: the
\* attempts had been used up.
C10_Witness ==
    /\ ObsWanted
    /\ obs_client.connected
    /\ obs_client.cooldown_timers > 0
    /\ lastOp.op \in {"connection_monitor", "reconnect_after_delay"}

\* C11: a client that a permanent disconnect has left with
\* should_be_connected = False and not connected stays so while only its
\* threads run (a sleeping reconnect timer, a cooldown thread, the monitor):
\* none of them connects it or sets should_be_connected.
C11_StaysDisconnected ==
    [][(/\ ~obs_client.should_be_connected
        /\ ~obs_client.connected
        /\ lastOp'.op \in {"reconnect_after_delay", "reset_attempts_later",
                           "connection_monitor", "connection_monitor_exit"})
          => /\ ~obs_client'.should_be_connected
             /\ ~obs_client'.connected]_vars

\* C12: a permanent disconnect without force is refused while
\* obs_settings.json says enabled or cannot be read: should_be_connected and
\* auto_reconnect_enabled keep their values, for POST /api/obs/disconnect as
\* for any call of disconnect; with force both flags are cleared whatever
\* the file says.
C12_RefusedUnlessForced ==
    [][/\ \A file \in SettingsFiles :
            LET forced == disconnect(obs_client', file, TRUE, TRUE)
                asked == disconnect(obs_client', file, TRUE, FALSE)
            IN /\ ~forced.should_be_connected
               /\ ~forced.auto_reconnect_enabled
               /\ file \in {"enabled", "corrupt"}
                    => /\ asked.should_be_connected
                            = obs_client'.should_be_connected
                       /\ asked.auto_reconnect_enabled
                            = obs_client'.auto_reconnect_enabled
       /\ (/\ lastOp'.op = "api_obs_disconnect"
           /\ obs_settings_file \in {"enabled", "corrupt"})
            => /\ obs_client'.should_be_connected
                    = obs_client.should_be_connected
               /\ obs_client'.auto_reconnect_enabled
                    = obs_client.auto_reconnect_enabled
       /\ (/\ lastOp'.op = "api_obs_settings_post"
           /\ obs_global
           /\ obs_settings_file' = "disabled")
            => /\ ~obs_client'.should_be_connected
               /\ ~obs_client'.auto_reconnect_enabled]_vars

\* C13: the process holds at most one open session to OBS Studio at any
\* time, and a scene change in OBS is announced to the Socket.IO clients by
\* at most one scene_changed.
C13_OneSession ==
    /\ Sessions(obs_client) <= 1
    /\ lastOp.op = "on_scene_changed" => Len(broadcasts) <= 1

\* C17: the callback for a scene change in OBS leaves state.json alone and
\* emits neither animation_changed nor page_refresh; on this path the
\* current media changes only in an iteration of the scene watcher that
\* reads a newer obs_current_scene.json naming another scene than the last
\* one, and the watcher takes each record once.
C17_SceneEventLeavesDisplay ==
    [][/\ lastOp'.op = "on_scene_changed"
            => /\ stateFile' = stateFile
               /\ \A i \in 1..Len(broadcasts') :
                      broadcasts'[i].event
                          \notin {"animation_changed", "page_refresh"}
       /\ lastOp'.op = "scene_watcher"
            => /\ osw_last_modified' = sceneFile'.mtime
               /\ (stateFile' # stateFile \/ broadcasts' # <<>>)
                    => /\ sceneFile.mtime > osw_last_modified
                       /\ sceneFile.current_scene # osw_last_scene
                       /\ Len(broadcasts') = 2]_vars

C17_Witness ==
    /\ lastOp.op = "on_scene_changed"
    /\ lastOp.scene = "Gaming"
    /\ broadcasts # <<>>
    /\ StateRead(stateFile) = "anim1.html"

\* C14: the all_media list of GET /animations is the sorted list of the
\* animations followed by the sorted list of the videos.
C14_AnimationsThenVideos ==
    lastOp.op = "list_animations"
        => response.all_media = response.animations \o response.videos

IsSorted(list) ==
    \A i, j \in 1..Len(list) : i < j => Rank(list[i]) < Rank(list[j])

\* C14 (amended): the all_media list of GET /animations holds every
\* animation (*.html) of animations/ and every video of videos/ once, in
\* one lexical order across the two kinds.
C14_SortedTogether ==
    lastOp.op = "list_animations"
        => /\ IsSorted(response.all_media)
           /\ {response.all_media[i] : i \in 1..Len(response.all_media)}
                = {f \in animationsDir : is_html_file(f)}
                    \cup {f \in videosDir : is_video_file(f)}
           /\ Len(response.all_media)
                = Len(response.animations) + Len(response.videos)
           /\ response.count = Len(response.all_media)

C14_Witness ==
    /\ lastOp.op = "list_animations"
    /\ response.all_media = <<"anim1.html", "clip.mp4", "intro.html">>

\* The requests that read the display state.
ReadRequest ==
    \/ lastOp.op \in {"index", "list_animations", "list_files", "admin_status",
                      "sio_connect", "sio_get_status"}
    \/ /\ lastOp.op = "raw_message"
       /\ lastOp.message.kind = "json"
       /\ lastOp.message.action = "get_status"

\* C20: a request that reads the display state (GET /, GET /animations,
\* GET /api/files, the admin status, Socket.IO connect and get_status, the
\* raw-socket get_status) leaves state.json as it was, whatever the file
\* and the media directories hold.
C20_ReadsLeaveState ==
    [][ReadRequest' => stateFile' = stateFile]_vars

\* An animation_changed and then a page_refresh, both naming lastOp.name
\* (the page_refresh in new_media, or in animation on the raw socket).
ChangedThenRefresh ==
    /\ Len(broadcasts) = 2
    /\ broadcasts[1].event = "animation_changed"
    /\ broadcasts[1].current_animation = lastOp.name
    /\ broadcasts[2].event = "page_refresh"
    /\ lastOp.name = IF "new_media" \in DOMAIN broadcasts[2]
                     THEN broadcasts[2].new_media
                     ELSE broadcasts[2].animation

\* C15: every accepted change, on any of the six trigger paths and with
\* any flags, is broadcast as one animation_changed followed by one
\* page_refresh, both naming the accepted media.
C15_AlwaysPair ==
    (ChangeRequest /\ Accepted) => ChangedThenRefresh

\* C15 (amended): an accepted change is broadcast as one animation_changed
\* followed by one page_refresh, both naming the accepted media, except for
\* a raw-socket request with force_refresh false, which is broadcast as the
\* animation_changed alone, with refresh_page false.
C15_PairUnlessNoRefresh ==
    (ChangeRequest /\ Accepted)
        => IF lastOp.op = "raw_message" /\ ~lastOp.message.force_refresh
           THEN /\ Len(broadcasts) = 1
                /\ ~broadcasts[1].refresh_page
           ELSE ChangedThenRefresh

C15_Witness ==
    /\ ChangeRequest
    /\ Accepted
    /\ lastOp.op = "raw_message"
    /\ ~lastOp.message.force_refresh
    /\ Len(broadcasts) = 1

\* The raw-socket message is no request the server knows: no JSON, no JSON
\* object, or an object with an unknown action.
BadRawMessage(message) ==
    \/ message.kind \in {"malformed", "not_object"}
    \/ /\ message.kind = "json"
       /\ message.action \notin {"trigger_animation", "get_status"}

\* C16: every message on a raw socket gets one reply and leaves every open
\* raw socket open; a message that is no JSON, no JSON object or names an
\* unknown action gets an error reply and changes nothing, and a get_status
\* that follows it on the connection is answered.
C16_OneReplyStaysOpen ==
    [][lastOp'.op = "raw_message"
          => /\ response'.status \in {"success", "error"}
             /\ raw_clients' = raw_clients
             /\ raw_clients' # {}
             /\ BadRawMessage(lastOp'.message)
                  => /\ response'.status = "error"
                     /\ stateFile' = stateFile
                     /\ broadcasts' = <<>>
             /\ (/\ lastOp.op = "raw_message"
                 /\ BadRawMessage(lastOp.message)
                 /\ lastOp'.message = [kind |-> "json", action |-> "get_status"])
                  => /\ response'.status = "success"
                     /\ response'.current_animation = StateRead(stateFile)]_vars

C16_Witness ==
    /\ lastOp.op = "raw_message"
    /\ lastOp.message.kind = "not_object"
    /\ response.status = "error"
    /\ raw_clients = {"ws1"}

\* C18: when every request has been handled to its end, the media named by
\* the last animation_changed broadcast is the current_animation of
\* state.json, whatever the interleaving of the requests.
C18_LastBroadcastIsState ==
    ((\A w \in Workers : workers[w].pc = "idle") /\ last_changed # None)
        => last_changed = StateRead(stateFile)

\* C19: a get_status that reads state.json while one thread is inside
\* save_state, and no other thread has written since, gets the
\* current_animation of before that write or the one that is being written.
C19_NoTornRead ==
    [][\A w \in Workers :
          (/\ lastOp'.op = "sio_get_status"
           /\ workers[w].pc = "opened"
           /\ \A v \in Workers \ {w} : workers[v].pc = "idle"
           /\ stateFile = CorruptFile
           /\ workers[w].replaced.kind = "json")
            => unicasts'[1].current_animation
                   \in {json_load(workers[w].replaced).current_animation,
                        workers[w].animation}]_vars

\* C21: every write of state.json leaves current_animation absent or an
\* identifier that find_media_file resolves at that moment: the value the
\* startup writes, the default of load_state and the fallback of GET /
\* included.
C21_WrittenValueResolves ==
    [][(/\ stateFile' # stateFile
        /\ stateFile'.kind = "json"
        /\ stateFile'.doc.current_animation # JNull)
          => find_media_file(stateFile'.doc.current_animation[2]).media_path
                 # None]_vars

\* C22: when save_state fails in a POST /trigger that found its media, the
\* caller gets 200 all the same, animation_changed is broadcast for the
\* media, and a state read that follows returns the media.
C22_FailedWriteStillApplies ==
    [][lastOp'.op = "trigger_raise"
          => /\ response'.status = 200
             /\ broadcasts' # <<>>
             /\ broadcasts'[1].event = "animation_changed"
             /\ broadcasts'[1].current_animation = lastOp'.name
             /\ StateRead(stateFile') = lastOp'.name]_vars

\* C23: should_be_connected of a client goes from true to false only in a
\* permanent disconnect that is not refused (POST /api/obs/disconnect while
\* obs_settings.json is missing or says disabled).  A failed connect, a
\* failed health check of the monitor, a forced disconnect that only closes
\* the client, a status probe and the two timer threads leave it as it is;
\* the process ending ends the client.
C23_OnlyDisableClears ==
    [][(obs_client.should_be_connected /\ ~obs_client'.should_be_connected)
          => \/ lastOp'.op = "shutdown"
             \/ /\ lastOp'.op = "api_obs_disconnect"
                /\ obs_global
                /\ obs_settings_file \in {"missing", "disabled"}]_vars

C23_Witness ==
    /\ lastOp.op \in {"connection_monitor", "reconnect_after_delay"}
    /\ obs_client.should_be_connected
    /\ ~obs_client.connected
    /\ obs_client.reconnect_attempts > 1

\* C24: a POST /api/obs/disconnect that is refused (obs_settings.json says
\* enabled or cannot be read) changes nothing: the connected flag of the
\* client, its obsws object and session, and the global obs_client are
\* after the request what they were before it.
C24_RefusedChangesNothing ==
    [][(/\ lastOp'.op = "api_obs_disconnect"
        /\ obs_global
        /\ obs_settings_file \in {"enabled", "corrupt"})
          => /\ obs_client'.connected = obs_client.connected
             /\ obs_client'.client = obs_client.client
             /\ obs_client'.link_up = obs_client.link_up
             /\ obs_global' = obs_global]_vars

\* C25: once the callback has handled a scene-change event that holds a
\* scene name, obs_current_scene.json exists and names that scene.
C25_SceneEventIsPersisted ==
    [][(lastOp'.op = "on_scene_changed" /\ ExtractedScene(lastOp'.message) # None)
          => /\ sceneFile'.exists
             /\ sceneFile'.current_scene = ExtractedScene(lastOp'.message)]_vars

\* C27: a scene-change event that holds no scene name (none of the three
\* shapes, an inspection that raises, or a name that is empty or only
\* whitespace) is dropped: the callback returns, obs_current_scene.json
\* and state.json are as before and nothing is emitted.
C27_EventWithoutNameIsDropped ==
    [][(/\ lastOp'.op = "on_scene_changed"
        /\ \/ lastOp'.message.shape \in {"other", "raises"}
           \/ lastOp'.message.sceneName \in {"", "  "})
          => /\ broadcasts' = <<>>
             /\ unicasts' = <<>>
             /\ sceneFile' = sceneFile
             /\ stateFile' = stateFile
             /\ response' = NoResponse]_vars

C27_Witness ==
    /\ lastOp.op = "on_scene_changed"
    /\ lastOp.message = [shape |-> "datain", sceneName |-> "  "]
    /\ broadcasts = <<>>

\* C26: every write of obs_current_scene.json puts a whole record in place
\* at once, so that the file never holds less than a record, and changes
\* the scene name and its time only: the other fields of the record it
\* replaces are in the new one.
C26_AtomicAndOtherFieldsKept ==
    [][sceneFile' # sceneFile
          => /\ "current_scene" \in DOMAIN sceneFile'
             /\ "current_scene" \in DOMAIN sceneFile
                  => sceneFile'.others = sceneFile.others]_vars

\* C28: the media_type broadcast for an accepted change is the kind of the
\* identifier's extension, "animation" for one of HTML_EXTENSIONS and
\* "video" for one of VIDEO_EXTENSIONS, on every trigger path, and no
\* identifier with another extension is accepted.
C28_KindByExtension ==
    (ChangeRequest /\ Accepted)
        => LET kind == IF is_html_file(lastOp.name) THEN "animation"
                       ELSE IF is_video_file(lastOp.name) THEN "video"
                       ELSE None
           IN /\ kind # None
              /\ broadcasts[1].media_type = kind

\* C29: a Socket.IO trigger_animation without an animation or for a media
\* that is not found, and a scene_change whose scene has no mapping or is
\* mapped to a media that is not found, broadcast nothing and send one
\* message to the client that asked: 'info' for the missing mapping,
\* 'error' for the others.
C29_RejectionToRequesterOnly ==
    /\ (/\ lastOp.op = "sio_trigger_animation"
        /\ (~Truthy(lastOp.name) \/ lastOp.name \notin Catalog))
         => /\ broadcasts = <<>>
            /\ Len(unicasts) = 1
            /\ unicasts[1].event = "error"
    /\ lastOp.op = "sio_scene_change"
         => LET animation == SceneChangeAnimation(lastOp.name, lastOp.mapping) IN
            /\ ~Truthy(animation)
                 => /\ broadcasts = <<>>
                    /\ Len(unicasts) = 1
                    /\ unicasts[1].event = "info"
            /\ (Truthy(animation) /\ animation \notin Catalog)
                 => /\ broadcasts = <<>>
                    /\ Len(unicasts) = 1
                    /\ unicasts[1].event = "error"

C29_Witness ==
    /\ lastOp.op = "sio_scene_change"
    /\ lastOp.name = "BRB"
    /\ broadcasts = <<>>
    /\ Len(unicasts) = 1
    /\ unicasts[1].event = "error"

watch_file_read_exiting(ok) ==
    /\ booted
    /\ tfw_thread.pc = "poll"
    /\ triggerFile.exists
    /\ triggerFile.mtime > tfw_last_modified
    /\ tfw_last_modified' = triggerFile.mtime
    /\ IF ok
       THEN /\ tfw_thread' = [pc |-> "read",
                              animation_name |-> Strip(triggerFile.content),
                              error_logged |-> tfw_thread.error_logged]
            /\ lastOp' = Op("watch_file_read", Strip(triggerFile.content))
       ELSE /\ tfw_thread' = [PollingWatcher EXCEPT !.pc = "exited",
                                                    !.error_logged = TRUE]
            /\ lastOp' = Op("watch_file_error", None)
    /\ broadcasts' = <<>>
    /\ unicasts' = <<>>
    /\ response' = NoResponse
    /\ UNCHANGED <<booted, displayVars, clock, triggerFile, sceneFileVars>>
    /\ UNCHANGED <<registryVars, obsVars, raw_clients, workers, last_changed>>

\* TriggerFileWatcher._watch_file statement by statement.  First half of an
\* iteration that finds a newer file: os.path.getmtime, last_modified is
\* set, then open() and f.read().strip() (app.py 202-211).  When the read
\* raises, the except branch logs the error and the loop goes on to its
\* sleep (app.py 219-222).
watch_file_read(ok) ==
    /\ booted
    /\ tfw_thread.pc = "poll"
    /\ triggerFile.exists
    /\ triggerFile.mtime > tfw_last_modified
    /\ tfw_last_modified' = triggerFile.mtime
    /\ IF ok
       THEN /\ tfw_thread' = [pc |-> "read",
                              animation_name |-> Strip(triggerFile.content),
                              error_logged |-> tfw_thread.error_logged]
            /\ lastOp' = Op("watch_file_read", Strip(triggerFile.content))
       ELSE /\ tfw_thread' = [PollingWatcher EXCEPT !.error_logged = TRUE]
            /\ lastOp' = Op("watch_file_error", None)
    /\ broadcasts' = <<>>
    /\ unicasts' = <<>>
    /\ response' = NoResponse
    /\ UNCHANGED <<booted, displayVars, clock, triggerFile, sceneFileVars>>
    /\ UNCHANGED <<registryVars, obsVars, raw_clients, workers, last_changed>>

\* Second half: _handle_trigger for a text that is not empty, then
\* os.remove(self.trigger_file_path), which deletes whatever file has the
\* name by now (app.py 213-217).  When os.remove raises (the file is gone,
\* or it cannot be deleted) the error is logged and the file stays as it
\* is.
watch_file_handle(removed) ==
    /\ booted
    /\ tfw_thread.pc = "read"
    /\ LET animation_name == tfw_thread.animation_name IN
       /\ lastOp' = [op |-> "file_trigger", name |-> animation_name,
                     removed |-> removed /\ triggerFile.exists]
       /\ IF animation_name # ""
          THEN WatcherTrigger("file_trigger", animation_name)
          ELSE /\ broadcasts' = <<>>
               /\ UNCHANGED stateFile
    /\ triggerFile' = IF removed THEN NoFile ELSE triggerFile
    /\ tfw_thread' =
         [PollingWatcher EXCEPT
            !.error_logged = tfw_thread.error_logged
                               \/ ~(removed /\ triggerFile.exists)]
    /\ unicasts' = <<>>
    /\ response' = NoResponse
    /\ UNCHANGED <<booted, animationsDir, videosDir, clock, tfw_last_modified,
                   sceneFileVars>>
    /\ UNCHANGED <<registryVars, obsVars, raw_clients, workers, last_changed>>

\* The writers of the two watched files and the two watcher threads.
NextWatcher ==
    \/ Startup
    \/ Shutdown
    \/ \E content \in {"anim1.html", " anim2.html\n", ""} :
           WriteTriggerFileUpTo(content, MaxTriggerWrites)
    \/ \E ok \in BOOLEAN : watch_file_read(ok)
    \/ \E removed \in BOOLEAN : watch_file_handle(removed)
    \/ \E scene \in ObsScenes :
           api_obs_current_scene_post_up_to(TRUE, scene, MaxTriggerWrites)
    \/ \E w \in Workers, scene \in ObsScenes : current_scene_post_open(w, scene)
    \/ \E w \in Workers : current_scene_post_dump(w)
    \/ watch_scene_file

SpecWatcher == InitObs /\ [][NextWatcher]_vars

\* Both watcher threads are scheduled again and again: each sleeps 0.1 s
\* between two iterations (app.py 222, 316).
FairSpecWatcher ==
    /\ SpecWatcher
    /\ WF_vars(\E ok \in BOOLEAN : watch_file_read(ok))
    /\ WF_vars(\E removed \in BOOLEAN : watch_file_handle(removed))
    /\ WF_vars(watch_scene_file)

\* C31: when a trigger file is written while the watcher is between its
\* read and its delete, the watcher does not apply the earlier text and
\* throw the later one away: every step of the watcher that removes
\* trigger.txt applies the text of the file it removes.
C31_LaterWriteIsApplied ==
    [][(lastOp'.op = "file_trigger" /\ triggerFile.exists
        /\ ~triggerFile'.exists)
       => /\ triggerFile.mtime <= tfw_last_modified
          /\ lastOp'.name = Strip(triggerFile.content)]_vars

\* C32: neither watcher stops polling after an error.  The trigger watcher
\* takes every newer trigger.txt that is in place when it polls, also after
\* its except branch has run, and handles what it has read; the scene
\* watcher takes every newer obs_current_scene.json, also after a file it
\* could not parse.
C32_WatchersKeepPolling ==
    /\ (booted /\ tfw_thread.pc # "read" /\ triggerFile.exists
        /\ triggerFile.mtime > tfw_last_modified)
       ~> ~(booted /\ tfw_thread.pc # "read" /\ triggerFile.exists
            /\ triggerFile.mtime > tfw_last_modified)
    /\ (booted /\ tfw_thread.pc = "read")
       ~> (~booted \/ lastOp.op = "file_trigger")
    /\ (booted /\ sceneFile.exists /\ sceneFile.mtime > osw_last_modified)
       ~> ~(booted /\ sceneFile.exists
            /\ sceneFile.mtime > osw_last_modified)

\* The trigger watcher has logged an error, and has then read, applied and
\* removed the second trigger file.
C32_Witness ==
    /\ tfw_thread.error_logged
    /\ lastOp.op = "file_trigger"
    /\ lastOp.removed
    /\ lastOp.name = "anim2.html"
    /\ tfw_last_modified = 2
    /\ load_state(stateFile).state.current_animation = "anim2.html"

\* C33: an iteration of the scene watcher that reads a scene name other
\* than its last_scene takes the first mapping for that name; when the
\* mapped media exists, current_animation becomes the mapped identifier and
\* the two events of POST /trigger are broadcast; when the name is the
\* last_scene, has no mapping, or maps to media that does not exist, the
\* display state stays as it is and nothing is broadcast.
C33_SceneMirror ==
    [][lastOp'.op = "scene_watcher" =>
         LET scene == IF "current_scene" \in DOMAIN sceneFile
                      THEN sceneFile.current_scene
                      ELSE None
             hits == {i \in 1..Len(SceneMappings) :
                         SceneMappings[i].sceneName = scene}
             first == CHOOSE i \in hits : \A j \in hits : i <= j
             mapped == SceneMappings[first].animation
             kind == IF mapped \in animationsDir THEN "animation" ELSE "video"
         IN IF /\ Truthy(scene)
               /\ scene # osw_last_scene
               /\ hits # {}
               /\ mapped \in animationsDir \cup videosDir
            THEN /\ load_state(stateFile').state.current_animation = mapped
                 /\ broadcasts' =
                      <<AnimationChanged(mapped, kind),
                        PageRefresh("media_changed", mapped, kind)>>
            ELSE /\ UNCHANGED stateFile
                 /\ broadcasts' = <<>>]_vars

\* The watcher has read the scene Gaming, which has two mappings, and the
\* first of them is displayed.
C33_Witness ==
    /\ lastOp.op = "scene_watcher"
    /\ lastOp.scene = "Gaming"
    /\ osw_last_scene = "Gaming"
    /\ load_state(stateFile).state.current_animation = "anim2.html"
    /\ Len(broadcasts) = 2

\* ------------------------------------------------------------------------
\* _schedule_reconnect statement by statement
\* ------------------------------------------------------------------------
\* The threads of one client share reconnect_attempts without a lock.  A
\* reconnect_after_delay thread wakes up while the client is disconnected,
\* its connect() fails, and in _schedule_reconnect it finds
\* reconnect_attempts < max_reconnect_attempts (app.py 638-642, 535-542,
\* 633): it has read the counter and has not yet written it.
reconnect_after_delay_test ==
    /\ booted
    /\ obs_client.reconnect_timers > 0
    /\ ~obs_client.connected
    /\ load_settings(obs_settings_file)
    /\ ~obs_reachable
    /\ obs_client.reconnect_attempts < max_reconnect_attempts
    /\ obs_client.scheduling < MaxTimers
    /\ obs_client' = [obs_client EXCEPT !.reconnect_timers = @ - 1,
                                        !.settings = TRUE,
                                        !.client = TRUE,
                                        !.link_up = FALSE,
                                        !.connected = FALSE,
                                        !.scheduling = @ + 1]
    /\ ObsStep("reconnect_after_delay_test")
    /\ response' = NoResponse
    /\ UNCHANGED <<obs_global, obs_settings_file, obs_reachable>>

\* That thread goes on: self.reconnect_attempts += 1, the delay is taken
\* and the next reconnect_after_delay thread is started (app.py 634-644).
schedule_reconnect_increment ==
    /\ booted
    /\ obs_client.scheduling > 0
    /\ obs_client' =
         [obs_client EXCEPT
            !.scheduling = @ - 1,
            !.reconnect_attempts = @ + 1,
            !.last_delay = Min(30, 2 ^ (obs_client.reconnect_attempts + 1)),
            !.reconnect_timers = @ + 1]
    /\ WithinTimers(obs_client')
    /\ ObsStep("schedule_reconnect_increment")
    /\ response' = NoResponse
    /\ UNCHANGED <<obs_global, obs_settings_file, obs_reachable>>

\* The monitor thread, the reconnect timers and the cooldown timers of the
\* client while OBS Studio comes and goes.
NextReconnect ==
    \/ Startup
    \/ Shutdown
    \/ ObsGoesDown
    \/ ObsComesUp
    \/ reconnect_after_delay
    \/ reconnect_after_delay_test
    \/ schedule_reconnect_increment
    \/ reset_attempts_later
    \/ connection_monitor

SpecReconnect == InitObs /\ [][NextReconnect]_vars

\* C34: reconnect_attempts stays within 0..max_reconnect_attempts however
\* the monitor thread, the reconnect timers and the cooldown timers
\* interleave, and it is 0 after every step in which a connect succeeds.
C34_AttemptsWithinMax ==
    [][/\ obs_client'.reconnect_attempts \in 0..max_reconnect_attempts
       /\ (obs_client'.connected /\ ~obs_client.connected)
          => obs_client'.reconnect_attempts = 0]_vars

\* C35: the client never has more than one reconnect_after_delay or
\* reset_attempts_later thread pending: a connect() that fails in the
\* monitor thread or in a timer thread does not start a timer next to one
\* that still sleeps.
C35_OneTimerChain ==
    obs_client.reconnect_timers + obs_client.cooldown_timers <= 1

\* C36: while the client is meant to stay connected (should_be_connected
\* and auto_reconnect_enabled both set, as enable_persistent_connection
\* leaves them) a connection monitor thread of the client is alive.
C36_MonitorWhileEnabled ==
    (booted /\ obs_client.should_be_connected
     /\ obs_client.auto_reconnect_enabled)
    => obs_client.monitor # "none"

\* C37: while nothing is displayed (state.json holds current_animation
\* null) every operation that reads the display state ends with a normal
\* or structured result: the HTTP routes GET /, GET /animations and the
\* admin status do not end with an internal error (status 500), get_status
\* answers its requester over Socket.IO and over the raw socket.
C37_ReadersWithNothingDisplayed ==
    [][(booted /\ StateRead(stateFile) = None) =>
         /\ lastOp'.op \in {"index", "list_animations", "admin_status"}
            => response'.status # 500
         /\ lastOp'.op = "sio_get_status" => Len(unicasts') = 1
         /\ (lastOp'.op = "raw_message"
             /\ lastOp'.message.action = "get_status")
            => response'.status = "success"]_vars

\* C38: find_media_file and the listing of GET /animations agree: a change
\* request for a name is accepted exactly when the name is in all_media,
\* and an accepted change reports the kind under which the name is listed
\* ("animation" for the animations list, "video" for the videos list).
C38_ResolveAgreesWithListing ==
    ChangeRequest =>
        LET Listed(list) == \E i \in 1..Len(list) : list[i] = lastOp.name IN
        /\ Accepted <=> Listed(get_all_media_files)
        /\ Accepted =>
             /\ broadcasts[1].media_type = "animation"
                  <=> Listed(get_animation_files)
             /\ broadcasts[1].media_type = "video"
                  <=> Listed(get_video_files)

\* C39: the admin delete never takes away the current media: once the
\* delete request and the trigger requests that ran next to it have
\* ended, state.json does not name a file that a delete has removed from
\* animations/.
C39_CurrentMediaNotDeleted ==
    (booted /\ \A w \in Workers : workers[w].pc = "idle"
     /\ stateFile.kind = "json")
    => StateRead(stateFile) \notin AnimationPool \ animationsDir

====
